---- MODULE Spec2Model ----
(***************************************************************************)
(* Streaming tool-call interception proxies of the GoogleSearch wrapper:   *)
(*   - the transport framers parseOpenAIStream / parseSSE,                 *)
(*   - the request rewriter injectGoogleSearchTool (three copies),         *)
(*   - the delta-merge (OpenAI / llama.cpp) streaming handler,             *)
(*   - the block-structured (Anthropic SSE) streaming handler.             *)
(* Source: src/utils/standalone-googlesearch/server-llamacpp.js (both      *)
(* handlers), server.js and search-google.js.                              *)
(***************************************************************************)
EXTENDS Integers, Sequences, FiniteSets, TLC

VARIABLES
    \* ---- transport framer (SpecFramer)
    fr_dialect,      \* "openai" (parseOpenAIStream) or "sse" (parseSSE)
    fr_all,          \* the whole upstream byte stream
    fr_rest,         \* bytes the transport has not delivered yet
    buffer,          \* the framer's retained bytes (const buffer = [])
    fr_yield,        \* events yielded so far, in order
    fr_closed,       \* the transport has closed and the generator returned
    \* ---- request rewriter (SpecTools)
    tl_variant,      \* which copy of injectGoogleSearchTool
    tl_in,           \* the tool list passed in
    tl_out,          \* the tool list returned
    tl_calls,        \* how many times injectGoogleSearchTool was applied
    \* ---- streaming request handler (Spec)
    proxy,           \* "dm" delta-merge handler, "bs" block-structured handler
    pc,              \* where the handler is: connect0, loop, search, connect,
                     \* followup, ended
    status,          \* status code of res.writeHead (0: headers not sent)
    modifiedBody,    \* the rewritten request body sent upstream
    upstream,        \* events the original stream has yielded so far
    upstreamEnd,     \* how the original stream ended: open, done, close, error
    followUpSeen,    \* events the current follow-up stream has yielded so far
    followUpEnd,     \* how the last follow-up stream ended
    out,             \* what res.write has sent to the client, in order
    searches,        \* queries performGoogleSearch was called with, in order
    searchFailed,    \* how many of those calls threw
    followUps,       \* follow-up requests passed to makeRequest, in order
    pending,         \* the search / follow-up in flight and its call site
    bufferedEvents,
    \* delta-merge handler
    detectedToolCall,
    currentToolCall,
    toolCallBuffer,
    hasContent,
    \* block-structured handler
    detectedWebSearch,
    currentToolUse,
    toolUseInputJson,
    thinkingContent,
    thinkingIndex,
    searchTriggeredFromThinking,
    \* ---- request handler up to the response (SpecRequest)
    rq_proxy,        \* "dm", "bs" (server-llamacpp.js) or "plain" (server.js)
    rq_body,         \* the inbound request body
    rq_pc,           \* received, connecting, relaying, streaming, done
    rq_modifiedBody, \* what processRequest returned as modifiedBody
    rq_sent,         \* bodies written to the upstream, in order
    rq_status,       \* status code sent to the client (0: none yet)
    rq_response,     \* chunks of the upstream response received so far
    rq_out,          \* response chunks written to the client, in order
    rq_upstreamStatus, \* status code of the upstream response (0: none yet)
    \* ---- the client's connection (SpecCancel)
    clientGone,      \* the client of the streaming request has disconnected
    \* ---- two requests handled concurrently (SpecPair)
    pr_in,           \* per request: what its upstream and its search will do
    pr,              \* per request: the handler's own state and its effects
    activeSearches,  \* the module-level Map of server.js
    \* ---- one performGoogleSearch call (SpecSearch)
    sr_variant,      \* "proxy" (search-google.js) or "mcp" (mcp-server/index.js)
    sr_env,          \* which credentials the environment holds
    sr_num,          \* the numResults argument
    sr_pc,           \* called, fetching, reading, returned, threw, replied,
                     \* rejected
    sr_timer,        \* a timeout timer is armed
    sr_result,       \* the results of the value returned
    sr_error,        \* the error thrown ("" none)
    sr_reply,        \* what the google_search handler returned to its caller
    \* ---- heuristic detection on two deliveries of one text (SpecThink)
    th_text,         \* the text of the thinking block
    th_in,           \* per run: the text cut into thinking_delta records
    th               \* per run: the heuristic state of the loop

frVars == <<fr_dialect, fr_all, fr_rest, buffer, fr_yield, fr_closed>>
tlVars == <<tl_variant, tl_in, tl_out, tl_calls>>
ioVars ==
    <<upstream, upstreamEnd, followUpSeen, followUpEnd, out, searches, searchFailed,
      followUps, pending>>
dmVars == <<detectedToolCall, currentToolCall, toolCallBuffer, hasContent>>
bsVars ==
    <<detectedWebSearch, currentToolUse, toolUseInputJson, thinkingContent,
      thinkingIndex, searchTriggeredFromThinking>>
pxVars == <<proxy, pc, status, modifiedBody, ioVars, bufferedEvents, dmVars, bsVars>>
rqVars ==
    <<rq_proxy, rq_body, rq_pc, rq_modifiedBody, rq_sent, rq_status, rq_response,
      rq_out, rq_upstreamStatus>>
\* what a step of the streaming handler leaves alone
prVars == <<pr_in, pr, activeSearches>>
srVars ==
    <<sr_variant, sr_env, sr_num, sr_pc, sr_timer, sr_result, sr_error, sr_reply>>
thVars == <<th_text, th_in, th>>
otherVars == <<frVars, tlVars, rqVars, clientGone, prVars, srVars, thVars>>
vars == <<pxVars, otherVars>>

(***************************************************************************)
(* Bounds of the model.                                                    *)
(***************************************************************************)
MaxFrames == 2
MaxTools == 2
MaxEvents == 4
MaxFollow == 1
MaxMsgs == 2
MaxPairEvents == 3
MaxItems == 11
MaxChunks == 2
MaxArgFrags == 3
MaxThink == 3

(***************************************************************************)
(* Generic helpers.                                                        *)
(***************************************************************************)
RECURSIVE Flatten(_)
Flatten(ss) ==
    IF ss = <<>> THEN <<>> ELSE Head(ss) \o Flatten(Tail(ss))

SeqsUpTo(S, n) ==
    UNION {[1..k -> S] : k \in 0..n}

(***************************************************************************)
(* TRANSPORT FRAMER                                                        *)
(*                                                                         *)
(* Bytes are tokens.  ASCII text is cut into the pieces a transport chunk  *)
(* can separate:                                                           *)
(*   "p1" "p2"  the two halves of the line prefix 'data: '                 *)
(*   "a"        the opening of a JSON literal   {"c":"                     *)
(*   "b"        the closing of that literal     "}                         *)
(*   "m1" "m2"  lead and continuation byte of one two-byte UTF-8 character *)
(*   "r"        the three bytes EF BF BD of U+FFFD (never split: they are  *)
(*              only produced by Buffer.from on the retained remainder)    *)
(*   "e"        the marker [DONE]                                          *)
(*   "s"        the JSON literal {"type":"message_stop"}                   *)
(*   "nl"       the line feed                                              *)
(* Characters are the same tokens, with "M" the two-byte character and     *)
(* "R" the replacement character U+FFFD.                                   *)
(***************************************************************************)
FContent == <<"p1", "p2", "a", "m1", "m2", "b", "nl">>
FDone == <<"p1", "p2", "e", "nl">>
FStop == <<"p1", "p2", "s", "nl">>
FBad == <<"p1", "p2", "a", "nl">>
FBlank == <<"nl">>

ValidFrames == {FContent, FDone, FStop, FBlank}
Frames == ValidFrames \cup {FBad}

\* buf.toString('utf8'): an incomplete or stray byte of a multi-byte
\* sequence decodes to U+FFFD.
RECURSIVE Utf8Decode(_)
Utf8Decode(bytes) ==
    IF bytes = <<>> THEN <<>>
    ELSE IF Head(bytes) = "m1"
         THEN IF Len(bytes) >= 2 /\ bytes[2] = "m2"
              THEN <<"M">> \o Utf8Decode(Tail(Tail(bytes)))
              ELSE <<"R">> \o Utf8Decode(Tail(bytes))
    ELSE IF Head(bytes) = "m2" THEN <<"R">> \o Utf8Decode(Tail(bytes))
    ELSE IF Head(bytes) = "r" THEN <<"R">> \o Utf8Decode(Tail(bytes))
    ELSE <<Head(bytes)>> \o Utf8Decode(Tail(bytes))

\* Buffer.from(str): the UTF-8 encoding of a string.
RECURSIVE Utf8Encode(_)
Utf8Encode(chars) ==
    IF chars = <<>> THEN <<>>
    ELSE IF Head(chars) = "M" THEN <<"m1", "m2">> \o Utf8Encode(Tail(chars))
    ELSE IF Head(chars) = "R" THEN <<"r">> \o Utf8Encode(Tail(chars))
    ELSE <<Head(chars)>> \o Utf8Encode(Tail(chars))

\* data.split('\n'): the pieces between line feeds; always at least one.
RECURSIVE SplitLines(_, _)
SplitLines(chars, cur) ==
    IF chars = <<>> THEN <<cur>>
    ELSE IF Head(chars) = "nl" THEN <<cur>> \o SplitLines(Tail(chars), <<>>)
    ELSE SplitLines(Tail(chars), Append(cur, Head(chars)))

StartsWithData(line) ==
    Len(line) >= 2 /\ line[1] = "p1" /\ line[2] = "p2"

Payload(line) == SubSeq(line, 3, Len(line))

\* JSON.parse succeeds on a closed literal; the string's characters are its
\* content.
JsonParses(p) ==
    \/ p = <<"s">>
    \/ /\ Len(p) >= 2
       /\ p[1] = "a"
       /\ p[Len(p)] = "b"
       /\ \A i \in 2..(Len(p) - 1) : p[i] \in {"M", "R"}

JsonEvent(p) ==
    IF p = <<"s">> THEN [type |-> "message_stop", content |-> <<>>]
    ELSE [type |-> "chunk", content |-> SubSeq(p, 2, Len(p) - 1)]

DoneEvent == [type |-> "done", content |-> <<>>]

\* The events one line yields, in order (body of the inner for loop).
LineEvents(dialect, line) ==
    IF line = <<>> \/ ~StartsWithData(line) THEN <<>>
    ELSE IF Payload(line) = <<"e">> THEN <<DoneEvent>>
    ELSE IF JsonParses(Payload(line))
         THEN IF dialect = "sse" /\ JsonEvent(Payload(line)).type = "message_stop"
              THEN <<JsonEvent(Payload(line)), DoneEvent>>
              ELSE <<JsonEvent(Payload(line))>>
    ELSE <<>>

\* Faulty variant of LinesEvents: a payload JSON.parse rejects ends the loop
\* over the lines of the chunk.
RECURSIVE LinesEventsAborting(_, _)
LinesEventsAborting(dialect, lines) ==
    IF lines = <<>> THEN <<>>
    ELSE IF /\ StartsWithData(Head(lines))
            /\ Payload(Head(lines)) # <<"e">>
            /\ ~JsonParses(Payload(Head(lines)))
    THEN <<>>
    ELSE LineEvents(dialect, Head(lines))
             \o LinesEventsAborting(dialect, Tail(lines))

RECURSIVE LinesEvents(_, _)
LinesEvents(dialect, lines) ==
    IF lines = <<>> THEN <<>>
    ELSE LineEvents(dialect, Head(lines)) \o LinesEvents(dialect, Tail(lines))

\* One iteration of `for await (const chunk of stream)`: the retained bytes
\* and the events yielded.
FramerStep(dialect, buf, chunk) ==
    LET data == Utf8Decode(buf \o chunk)
        lines == SplitLines(data, <<>>)
        remainder == lines[Len(lines)]
        complete == SubSeq(lines, 1, Len(lines) - 1)
    IN  [buffer |-> IF remainder # <<>> THEN Utf8Encode(remainder) ELSE <<>>,
         events |-> LinesEvents(dialect, complete)]

FramerInit ==
    /\ fr_dialect \in {"openai", "sse"}
    /\ fr_all \in {Flatten(fs) : fs \in SeqsUpTo(Frames, MaxFrames)}
    /\ fr_rest = fr_all
    /\ buffer = <<>>
    /\ fr_yield = <<>>
    /\ fr_closed = FALSE

\* The transport delivers the next chunk: any non-empty prefix of what is left.
FramerChunk ==
    /\ fr_rest # <<>>
    /\ \E k \in 1..Len(fr_rest) :
         LET step == FramerStep(fr_dialect, buffer, SubSeq(fr_rest, 1, k))
         IN  /\ buffer' = step.buffer
             /\ fr_yield' = fr_yield \o step.events
             /\ fr_rest' = SubSeq(fr_rest, k + 1, Len(fr_rest))
    /\ UNCHANGED <<fr_dialect, fr_all, fr_closed>>

\* The transport closes after its last byte: the for-await loop ends and the
\* generator returns; what is retained of an unfinished line is dropped.
FramerClose ==
    /\ fr_rest = <<>>
    /\ ~fr_closed
    /\ fr_closed' = TRUE
    /\ UNCHANGED <<fr_dialect, fr_all, fr_rest, buffer, fr_yield>>

(***************************************************************************)
(* REQUEST REWRITER                                                        *)
(*                                                                         *)
(* A tool is [fname, name]: function.name (OpenAI format) and name         *)
(* (Anthropic format); "" stands for an absent field.                      *)
(***************************************************************************)
Competing == {"WebSearch", "web_search", "Task", "Skill"}
ToolNames == {"GoogleSearch", "Read"} \cup Competing

Tools ==
    {[fname |-> n, name |-> ""] : n \in ToolNames}
        \cup {[fname |-> "", name |-> n] : n \in ToolNames}

\* server-llamacpp.js, delta-merge half (OpenAI format)
injectOpenAI(tools) ==
    IF \E i \in 1..Len(tools) :
          tools[i].fname = "GoogleSearch" \/ tools[i].name = "GoogleSearch"
    THEN tools
    ELSE LET keep(t) == t.fname \notin Competing
         IN  <<[fname |-> "GoogleSearch", name |-> ""]>> \o SelectSeq(tools, keep)

\* Faulty variant of injectAnthropic: no test for a GoogleSearch entry that
\* is already there.
injectAnthropicAlways(tools) ==
    LET keep(t) == t.name \notin Competing
    IN  <<[fname |-> "", name |-> "GoogleSearch"]>> \o SelectSeq(tools, keep)

\* server-llamacpp.js, block-structured half, and server.js (Anthropic format)
injectAnthropic(tools) ==
    IF \E i \in 1..Len(tools) : tools[i].name = "GoogleSearch"
    THEN tools
    ELSE LET keep(t) == t.name \notin Competing
         IN  <<[fname |-> "", name |-> "GoogleSearch"]>> \o SelectSeq(tools, keep)

injectGoogleSearchTool(variant, tools) ==
    IF variant = "openai" THEN injectOpenAI(tools) ELSE injectAnthropic(tools)

ToolsInit ==
    /\ tl_variant \in {"openai", "anthropic", "serverjs"}
    /\ tl_in \in SeqsUpTo(Tools, MaxTools)
    /\ tl_out = tl_in
    /\ tl_calls = 0

\* data.tools = injectGoogleSearchTool(data.tools)
ToolsInject ==
    /\ tl_calls < 2
    /\ tl_out' = injectGoogleSearchTool(tl_variant, tl_out)
    /\ tl_calls' = tl_calls + 1
    /\ UNCHANGED <<tl_variant, tl_in>>

(***************************************************************************)
(* STREAMING HANDLERS: what both share                                     *)
(*                                                                         *)
(* Argument text is a sequence of fragments:                               *)
(*   "QOpen"   {"query":"q"     (JSON still open)                          *)
(*   "ROpen"   {"query":"r"     (JSON still open)                          *)
(*   "QClose"  }                                                           *)
(*   "Empty"   {}               (JSON, no query member)                    *)
(*   "QBlank"  {"query":""}     (JSON, the query is the empty string)      *)
(*   "QNum"    {"query":5}      (JSON, the query is not a string)          *)
(* JSON.parse accepts an open fragment followed by "QClose" and each of    *)
(* the last three alone; the tolerant pattern /"query"\s*:\s*"([^"]+)"/    *)
(* matches at the leftmost "QOpen" or "ROpen" of a text.  The upstreams of *)
(* the handlers send the fragments ArgFrags.  A query is a sequence of     *)
(* text tokens; <<>> is the empty string and stands for no query.          *)
(***************************************************************************)
ArgFrags == {"QOpen", "QClose"}

AllArgFrags == ArgFrags \cup {"ROpen", "Empty", "QBlank", "QNum"}

ArgsParse(text) ==
    text \in {<<"QOpen", "QClose">>, <<"ROpen", "QClose">>, <<"Empty">>,
              <<"QBlank">>, <<"QNum">>}

\* JSON.parse(text).query of a text that parses
ParsedQuery(text) ==
    IF text = <<"QOpen", "QClose">> THEN [kind |-> "string", val |-> <<"q">>]
    ELSE IF text = <<"ROpen", "QClose">> THEN [kind |-> "string", val |-> <<"r">>]
    ELSE IF text = <<"QBlank">> THEN [kind |-> "string", val |-> <<>>]
    ELSE IF text = <<"QNum">> THEN [kind |-> "number", val |-> <<>>]
    ELSE [kind |-> "undefined", val |-> <<>>]

IsCapture(text, i) == text[i] \in {"QOpen", "ROpen"}

ArgsMatch(text) == \E i \in 1..Len(text) : IsCapture(text, i)

\* match[1]: the capture of the leftmost match
FirstCapture(text) ==
    LET i == CHOOSE k \in 1..Len(text) :
                 IsCapture(text, k) /\ \A j \in 1..(k - 1) : ~IsCapture(text, j)
    IN  [kind |-> "string", val |-> IF text[i] = "QOpen" THEN <<"q">> ELSE <<"r">>]

\* Faulty variant of QueryOf: a text that does not parse yields no query.
QueryOfNoFallback(text) ==
    IF ArgsParse(text) THEN ParsedQuery(text)
    ELSE [kind |-> "undefined", val |-> <<>>]

\* the value of `query` after try { JSON.parse(...).query } catch { match(...)[1] }
QueryOf(text) ==
    IF ArgsParse(text) THEN ParsedQuery(text)
    ELSE IF ArgsMatch(text) THEN FirstCapture(text)
    ELSE [kind |-> "undefined", val |-> <<>>]

NoQuery == <<>>

\* if (query && typeof query === 'string'): the query the search is called
\* with, NoQuery when the test fails
ExtractQuery(text) ==
    IF QueryOf(text).kind = "string" /\ QueryOf(text).val # <<>>
    THEN QueryOf(text).val
    ELSE NoQuery

\* A turn of the conversation; n numbers the client's own turns.
OrigMsg(i) == [role |-> "user", id |-> "", body |-> <<"m">>, n |-> i]

Transcript(k) == [i \in 1..k |-> OrigMsg(i)]

Bodies ==
    {[hasMessages |-> FALSE, messages |-> <<>>],
     [hasMessages |-> TRUE, messages |-> Transcript(MaxMsgs)]}

\* formatSearchResults(searchResults)
FormatResults(query) == <<"results">> \o query

\* What res.write sends.
Fwd(ev) == [t |-> "event", ev |-> ev, idx |-> 0]
NoEvent == [type |-> "none"]
Synth(kind, i) == [t |-> kind, ev |-> NoEvent, idx |-> i]
Sentinel == Synth("DONE", 0)

NullCall == [null |-> TRUE]
NoPending == [site |-> "none"]

(***************************************************************************)
(* DELTA-MERGE HANDLER (server-llamacpp.js, first half)                    *)
(*                                                                         *)
(* An upstream record, by the fields the handler reads:                    *)
(*   tc       delta.tool_calls is a non-empty array                        *)
(*   name     tool_calls[0].function.name     ("" absent)                  *)
(*   type     tool_calls[0].type              ("" absent)                  *)
(*   id       tool_calls[0].id                ("" absent)                  *)
(*   args     tool_calls[0].function.arguments (<<>> absent or '')         *)
(*   fin      choices[0].finish_reason is set                              *)
(*   content  delta.content or delta.reasoning_content is non-empty        *)
(***************************************************************************)
DMRecord(tc, name, type, id, args, fin, content) ==
    [tc |-> tc, name |-> name, type |-> type, id |-> id, args |-> args,
     fin |-> fin, content |-> content]

DMContent == DMRecord(FALSE, "", "", "", <<>>, FALSE, TRUE)
DMFinish == DMRecord(FALSE, "", "", "", <<>>, TRUE, FALSE)
DMStartGS == DMRecord(TRUE, "GoogleSearch", "function", "call_1", <<>>, FALSE, FALSE)
DMStartGSArgs ==
    DMRecord(TRUE, "GoogleSearch", "function", "call_1", <<"QOpen", "QClose">>,
             FALSE, FALSE)
DMStartOther == DMRecord(TRUE, "Read", "function", "call_2", <<>>, FALSE, FALSE)
DMFrag(f) == DMRecord(TRUE, "", "", "", <<f>>, FALSE, FALSE)

DMEvents ==
    {DMContent, DMFinish, DMStartGS, DMStartGSArgs, DMStartOther}
        \cup {DMFrag(f) : f \in ArgFrags}

DMFollowEvents == {DMContent, DMStartGS}

\* line 346
DMIsToolStart(ev) ==
    ev.tc /\ (ev.name = "GoogleSearch" \/ ev.type = "function")

\* Faulty variant of DMFollowUpMessages: the assistant turn is left out.
DMFollowUpMessagesNoAssistant(messages, call, argText, query) ==
    messages \o
    <<[role |-> "tool", id |-> call.id, body |-> FormatResults(query), n |-> 0]>>

\* lines 421-459
DMFollowUpMessages(messages, call, argText, query) ==
    messages \o
    <<[role |-> "assistant", id |-> call.id, body |-> argText, n |-> 0],
      [role |-> "tool", id |-> call.id, body |-> FormatResults(query), n |-> 0]>>

\* Faulty variant of DMForward: the record is written twice, as the block-structured
\* loop does at lines 1040 and 1306.
DMForwardTwice(o, ev, detected, call) ==
    IF ~detected \/ call = NullCall
    THEN Append(Append(o, Fwd(ev)), Fwd(ev))
    ELSE o

\* lines 503-506: forward non-tool_call events
DMForward(o, ev, detected, call) ==
    IF ~detected \/ call = NullCall THEN Append(o, Fwd(ev)) ELSE o

\* lines 497-500: the statements after the try block
DMClearToolCall ==
    /\ currentToolCall' = NullCall
    /\ toolCallBuffer' = <<>>
    /\ UNCHANGED <<detectedToolCall, hasContent>>

\* lines 325-507, one iteration of the loop on a record that is not 'done'
DMEvent ==
    /\ proxy = "dm"
    /\ pc = "loop"
    /\ Len(upstream) < MaxEvents
    /\ \E ev \in DMEvents :
         /\ upstream' = Append(upstream, ev)
         /\ bufferedEvents' = Append(bufferedEvents, ev)
         /\ hasContent' = (hasContent \/ ev.content)
         /\ IF DMIsToolStart(ev)
            THEN /\ detectedToolCall' = TRUE
                 /\ currentToolCall' =
                        [null |-> FALSE,
                         id |-> IF ev.id # "" THEN ev.id ELSE "chunk",
                         name |-> IF ev.name # "" THEN ev.name ELSE "GoogleSearch",
                         arguments |-> ev.args]
                 /\ out' = Append(out, Synth("notice", 0))
                 /\ UNCHANGED <<toolCallBuffer, pc, searches, pending>>
            ELSE IF ev.tc /\ currentToolCall # NullCall /\ ev.args # <<>>
            THEN /\ toolCallBuffer' = toolCallBuffer \o ev.args
                 /\ UNCHANGED <<detectedToolCall, currentToolCall, out, pc,
                                searches, pending>>
            ELSE IF currentToolCall # NullCall /\ (ev.fin \/ ~ev.tc)
            THEN IF ExtractQuery(toolCallBuffer) # NoQuery
                 THEN /\ pc' = "search"
                      /\ searches' = Append(searches, ExtractQuery(toolCallBuffer))
                      /\ pending' = [site |-> "explicit",
                                     query |-> ExtractQuery(toolCallBuffer),
                                     ev |-> ev]
                      /\ UNCHANGED <<detectedToolCall, currentToolCall,
                                     toolCallBuffer, out>>
                 ELSE /\ currentToolCall' = NullCall
                      /\ toolCallBuffer' = <<>>
                      /\ UNCHANGED <<detectedToolCall, out, pc, searches, pending>>
            ELSE /\ out' = DMForward(out, ev, detectedToolCall, currentToolCall)
                 /\ UNCHANGED <<detectedToolCall, currentToolCall,
                                toolCallBuffer, pc, searches, pending>>
    /\ UNCHANGED <<proxy, status, modifiedBody, upstreamEnd, followUpSeen,
                   followUpEnd, searchFailed, followUps, bsVars>>
    /\ UNCHANGED otherVars

(***************************************************************************)
(* BLOCK-STRUCTURED HANDLER (server-llamacpp.js, second half)              *)
(*                                                                         *)
(* An upstream record, by the fields the handler reads:                    *)
(*   type    event.type                                                    *)
(*   btype   event.content_block.type   ("" absent)                        *)
(*   name    event.content_block.name                                      *)
(*   id      event.content_block.id                                        *)
(*   dtype   event.delta.type                                              *)
(*   text    event.delta.thinking       (a sequence of text tokens)        *)
(*   pj      event.delta.partial_json   (a sequence of fragments)          *)
(*   index   event.index                                                   *)
(* Thinking text is made of the tokens                                     *)
(*   "sq"   'search for cats '  16 characters, holds a search intent       *)
(*   "fc"   'find a cat'        10 characters, holds a search intent       *)
(*   "pad"  'well '              5 characters, holds none                  *)
(*   "nw"   'news about dogs '  16 characters, holds an intent that only   *)
(*          the fifth pattern finds; the upstreams of the handlers do not  *)
(*          send it                                                        *)
(***************************************************************************)
BSRecord(type, btype, name, id, dtype, text, pj) ==
    [type |-> type, btype |-> btype, name |-> name, id |-> id, dtype |-> dtype,
     text |-> text, pj |-> pj, index |-> 0]

BSText == BSRecord("content_block_delta", "", "", "", "text_delta", <<>>, <<>>)
BSThinkStart == BSRecord("content_block_start", "thinking", "", "", "", <<>>, <<>>)
BSThink(tok) ==
    BSRecord("content_block_delta", "", "", "", "thinking_delta", <<tok>>, <<>>)
BSStop == BSRecord("content_block_stop", "", "", "", "", <<>>, <<>>)
BSToolStartGS ==
    BSRecord("content_block_start", "tool_use", "GoogleSearch", "toolu_1", "",
             <<>>, <<>>)
BSToolStartOther ==
    BSRecord("content_block_start", "tool_use", "Read", "toolu_2", "", <<>>, <<>>)
BSJson(f) ==
    BSRecord("content_block_delta", "", "", "", "input_json_delta", <<>>, <<f>>)

ThinkTokens == {"sq", "fc", "pad"}

AllThinkTokens == ThinkTokens \cup {"nw"}

BSEvents ==
    {BSText, BSThinkStart, BSStop, BSToolStartGS, BSToolStartOther}
        \cup {BSThink(tok) : tok \in ThinkTokens}
        \cup {BSJson(f) : f \in ArgFrags}

BSFollowEvents == {BSText, BSToolStartGS, BSThink("sq")}

TokLen(tok) == IF tok \in {"sq", "nw"} THEN 16 ELSE IF tok = "fc" THEN 10 ELSE 5

RECURSIVE TextLen(_)
TextLen(text) ==
    IF text = <<>> THEN 0 ELSE TokLen(Head(text)) + TextLen(Tail(text))

\* thinkingContent.length > 15 (line 1055)
ThinkingMinLen == 15

\* The first pattern of searchPatterns,
\*   /\b(?:search|find|look up|google|search\s+for)\s+(?:for\s+)?(.{5,100})/i,
\* matches at the leftmost "sq" or "fc" and captures the rest of the text
\* ('cats ...' after 'search for ', 'a cat...' after 'find ').
\* Texts stay under 100 characters.
KeywordAt(text, i) == text[i] \in {"sq", "fc"}

FirstKeyword(text) ==
    CHOOSE i \in 1..Len(text) :
        KeywordAt(text, i) /\ \A j \in 1..(i - 1) : ~KeywordAt(text, j)

\* The fifth pattern,
\*   /\b(?:news|updates?|information)\s+(?:about|on|for)\s+(.{5,100})/i,
\* matches at the leftmost "nw" that starts a word ('find a cat' ends in a
\* letter, so a "nw" right after "fc" does not) and captures 'dogs ' and the
\* rest of the text.  The tokens hold no word of the patterns 2, 3, 4 and 6.
NewsAt(text, i) == text[i] = "nw" /\ (i > 1 => text[i - 1] # "fc")

FirstNews(text) ==
    CHOOSE i \in 1..Len(text) :
        NewsAt(text, i) /\ \A j \in 1..(i - 1) : ~NewsAt(text, j)

\* text.match(searchPatterns[0]) and its capture
MatchesFirstPattern(text) == \E i \in 1..Len(text) : KeywordAt(text, i)

FirstPatternCapture(text) ==
    LET i == FirstKeyword(text)
    IN  <<IF text[i] = "sq" THEN "cats " ELSE "a cat">>
            \o SubSeq(text, i + 1, Len(text))

\* text.match(searchPatterns[4]) and its capture
MatchesFifthPattern(text) == \E i \in 1..Len(text) : NewsAt(text, i)

FifthPatternCapture(text) ==
    <<"dogs ">> \o SubSeq(text, FirstNews(text) + 1, Len(text))

\* Faulty variant of detectSearchInThinking: the patterns are tried as one
\* alternation, so the match that starts first in the text wins.
detectLeftmostMatch(text) ==
    IF MatchesFirstPattern(text) /\ MatchesFifthPattern(text)
    THEN IF FirstKeyword(text) < FirstNews(text)
         THEN FirstPatternCapture(text)
         ELSE FifthPatternCapture(text)
    ELSE IF MatchesFirstPattern(text) THEN FirstPatternCapture(text)
    ELSE IF MatchesFifthPattern(text) THEN FifthPatternCapture(text)
    ELSE NoQuery

\* for (const pattern of searchPatterns): the first pattern that matches
\* returns match[1]
detectSearchInThinking(text) ==
    IF MatchesFirstPattern(text) THEN FirstPatternCapture(text)
    ELSE IF MatchesFifthPattern(text) THEN FifthPatternCapture(text)
    ELSE NoQuery

\* lines 1033-1036 and 1137-1140
BSIsGoogleSearchStart(ev) ==
    /\ ev.type = "content_block_start"
    /\ ev.btype = "tool_use"
    /\ ev.name = "GoogleSearch"

\* index of the notice block (lines 1154, 1159, 1164, 1207)
BSTextIndex(buffered) == Len(buffered)

\* lines 982-992
BSDoneFollowUpMessages(messages, query) ==
    messages \o
    <<[role |-> "assistant", id |-> "", body |-> <<"I need to search for: ">> \o query,
       n |-> 0],
      [role |-> "user", id |-> "", body |-> FormatResults(query), n |-> 0]>>

\* lines 1082-1092
BSThinkFollowUpMessages(messages, query) ==
    messages \o
    <<[role |-> "assistant", id |-> "",
       body |-> <<"I need to search for information about: ">> \o query, n |-> 0],
      [role |-> "user", id |-> "", body |-> query \o FormatResults(query), n |-> 0]>>

\* lines 1219-1256; currentToolUse.input is the {} set at line 1146
BSFollowUpMessages(messages, use, query) ==
    messages \o
    <<[role |-> "assistant", id |-> use.id, body |-> use.input, n |-> 0],
      [role |-> "user", id |-> "", body |-> FormatResults(query), n |-> 0]>>

\* lines 1032-1306, one iteration of the loop on a record that is not 'done'
BSEvent ==
    /\ proxy = "bs"
    /\ pc = "loop"
    /\ Len(upstream) < MaxEvents
    /\ \E ev \in BSEvents :
         LET \* lines 1033-1041: forward at once unless a GoogleSearch tool_use
             out1 == IF BSIsGoogleSearchStart(ev) THEN out ELSE Append(out, Fwd(ev))
             \* lines 1044-1050
             think1 == IF ev.type = "content_block_start" /\ ev.btype = "thinking"
                       THEN <<>>
                       ELSE thinkingContent
             think2 == IF ev.type = "content_block_delta" /\ ev.dtype = "thinking_delta"
                       THEN think1 \o ev.text
                       ELSE think1
             potentialQuery == detectSearchInThinking(think2)
             trigger ==
                 /\ ev.type = "content_block_delta"
                 /\ ev.dtype = "thinking_delta"
                 /\ ~searchTriggeredFromThinking
                 /\ ~detectedWebSearch
                 /\ potentialQuery # NoQuery
                 /\ TextLen(think2) > ThinkingMinLen
             index1 == IF ev.type = "content_block_start" /\ ev.btype = "thinking"
                       THEN ev.index
                       ELSE thinkingIndex
             \* lines 1131-1134
             reset == ev.type = "content_block_stop" /\ index1 >= 0
         IN  /\ upstream' = Append(upstream, ev)
             /\ IF trigger
                THEN \* lines 1057-1070: the search starts inside this iteration
                     /\ detectedWebSearch' = TRUE
                     /\ searchTriggeredFromThinking' = TRUE
                     /\ thinkingContent' = think2
                     /\ thinkingIndex' = index1
                     /\ out' = Append(out1, Synth("notice", index1))
                     /\ pc' = "search"
                     /\ searches' = Append(searches, potentialQuery)
                     /\ pending' = [site |-> "think", query |-> potentialQuery,
                                    ev |-> ev]
                     /\ UNCHANGED <<currentToolUse, toolUseInputJson, bufferedEvents>>
                ELSE /\ thinkingContent' = IF reset THEN <<>> ELSE think2
                     /\ thinkingIndex' = IF reset THEN -1 ELSE index1
                     /\ UNCHANGED searchTriggeredFromThinking
                     /\ IF BSIsGoogleSearchStart(ev)
                        THEN \* lines 1137-1168
                             /\ bufferedEvents' = Append(bufferedEvents, ev)
                             /\ detectedWebSearch' = TRUE
                             /\ currentToolUse' =
                                    [null |-> FALSE, id |-> ev.id, name |-> ev.name,
                                     input |-> <<>>]
                             /\ out' = out1 \o
                                    <<Synth("notice_start",
                                            BSTextIndex(Append(bufferedEvents, ev))),
                                      Synth("notice",
                                            BSTextIndex(Append(bufferedEvents, ev))),
                                      Synth("notice_stop",
                                            BSTextIndex(Append(bufferedEvents, ev)))>>
                             /\ UNCHANGED <<toolUseInputJson, pc, searches, pending>>
                        ELSE IF /\ currentToolUse # NullCall
                                /\ ev.type = "content_block_delta"
                                /\ ev.dtype = "input_json_delta"
                        THEN \* lines 1171-1177
                             /\ toolUseInputJson' = toolUseInputJson \o ev.pj
                             /\ out' = out1
                             /\ UNCHANGED <<bufferedEvents, detectedWebSearch,
                                            currentToolUse, pc, searches, pending>>
                        ELSE IF currentToolUse # NullCall /\ ev.type = "content_block_stop"
                        THEN \* lines 1180-1303
                             /\ out' = out1
                             /\ IF ExtractQuery(toolUseInputJson) # NoQuery
                                THEN /\ pc' = "search"
                                     /\ searches' =
                                            Append(searches,
                                                   ExtractQuery(toolUseInputJson))
                                     /\ pending' =
                                            [site |-> "explicit",
                                             query |-> ExtractQuery(toolUseInputJson),
                                             ev |-> ev]
                                     /\ UNCHANGED <<currentToolUse, toolUseInputJson>>
                                ELSE /\ currentToolUse' = NullCall
                                     /\ toolUseInputJson' = <<>>
                                     /\ UNCHANGED <<pc, searches, pending>>
                             /\ UNCHANGED <<bufferedEvents, detectedWebSearch>>
                        ELSE \* line 1306: the record is written a second time
                             /\ out' = Append(out1, Fwd(ev))
                             /\ UNCHANGED <<bufferedEvents, detectedWebSearch,
                                            currentToolUse, toolUseInputJson, pc,
                                            searches, pending>>
    /\ UNCHANGED <<proxy, status, modifiedBody, upstreamEnd, followUpSeen,
                   followUpEnd, searchFailed, followUps, dmVars>>
    /\ UNCHANGED otherVars

(***************************************************************************)
(* STREAMING HANDLERS: the awaits of one request                           *)
(***************************************************************************)
FollowEvents == IF proxy = "dm" THEN DMFollowEvents ELSE BSFollowEvents

\* The follow-up transcript built at the call site of the pending search.
followUpMessages ==
    IF proxy = "dm"
    THEN DMFollowUpMessages(modifiedBody.messages, currentToolCall, toolCallBuffer,
                            pending.query)
    ELSE IF pending.site = "explicit"
    THEN BSFollowUpMessages(modifiedBody.messages, currentToolUse, pending.query)
    ELSE IF pending.site = "think"
    THEN BSThinkFollowUpMessages(modifiedBody.messages, pending.query)
    ELSE BSDoneFollowUpMessages(modifiedBody.messages, pending.query)

\* The "found" notice of the call site (lines 405, 974, 1074, 1208).
FoundNotice ==
    IF proxy = "dm" THEN Synth("found", 0)
    ELSE IF pending.site = "explicit"
    THEN Synth("found", BSTextIndex(bufferedEvents))
    ELSE Synth("found", thinkingIndex)

\* Faulty variant of Catch: a failed search that was triggered by a
\* thinking_delta clears the two flags, so detection is armed again.
CatchRearming(o) ==
    /\ pending' = NoPending
    /\ IF proxy = "dm"
       THEN /\ DMClearToolCall
            /\ out' = o
            /\ pc' = "loop"
            /\ UNCHANGED bsVars
       ELSE IF pending.site = "explicit"
       THEN /\ currentToolUse' = NullCall
            /\ toolUseInputJson' = <<>>
            /\ out' = o
            /\ pc' = "loop"
            /\ UNCHANGED <<detectedWebSearch, thinkingContent, thinkingIndex,
                           searchTriggeredFromThinking, dmVars>>
       ELSE IF pending.site = "think"
       THEN /\ out' = Append(o, Fwd(pending.ev))
            /\ pc' = "loop"
            /\ detectedWebSearch' = FALSE
            /\ searchTriggeredFromThinking' = FALSE
            /\ UNCHANGED <<currentToolUse, toolUseInputJson, thinkingContent,
                           thinkingIndex, dmVars>>
       ELSE /\ out' = Append(o, Sentinel)
            /\ pc' = "ended"
            /\ UNCHANGED <<bsVars, dmVars>>

\* An exception inside the try block of the pending call site: the catch
\* clause and the statements that follow it, with `o` what was written so far.
\*   delta-merge (lines 493-500): clear the tool call, continue the loop
\*   block-structured tool_use (1292-1302): clear the tool use, continue
\*   block-structured thinking_delta (1122-1125, then 1306): fall through
\*     the rest of the iteration, which writes the record again
\*   block-structured done (1022-1029): write the sentinel, break, res.end()
Catch(o) ==
    /\ pending' = NoPending
    /\ IF proxy = "dm"
       THEN /\ DMClearToolCall
            /\ out' = o
            /\ pc' = "loop"
            /\ UNCHANGED bsVars
       ELSE IF pending.site = "explicit"
       THEN /\ currentToolUse' = NullCall
            /\ toolUseInputJson' = <<>>
            /\ out' = o
            /\ pc' = "loop"
            /\ UNCHANGED <<detectedWebSearch, thinkingContent, thinkingIndex,
                           searchTriggeredFromThinking, dmVars>>
       ELSE IF pending.site = "think"
       THEN /\ out' = Append(o, Fwd(pending.ev))
            /\ pc' = "loop"
            /\ UNCHANGED <<bsVars, dmVars>>
       ELSE /\ out' = Append(o, Sentinel)
            /\ pc' = "ended"
            /\ UNCHANGED <<bsVars, dmVars>>

\* makeRequest(BACKEND_URL, options, modifiedBody) resolves (lines 306-313,
\* 905-913): the response headers go to the client.
InitialConnects ==
    /\ pc = "connect0"
    /\ pc' = "loop"
    /\ status' = 200
    /\ UNCHANGED <<proxy, modifiedBody, ioVars, bufferedEvents, dmVars, bsVars>>
    /\ UNCHANGED otherVars

\* makeRequest rejects: the handler's catch finds no headers sent (510-518,
\* 1310-1319).
InitialConnectFails ==
    /\ pc = "connect0"
    /\ pc' = "ended"
    /\ status' = 400
    /\ UNCHANGED <<proxy, modifiedBody, ioVars, bufferedEvents, dmVars, bsVars>>
    /\ UNCHANGED otherVars

\* performGoogleSearch resolves: the result count is written, the follow-up
\* body is built and makeRequest is called.  JSON.parse(modifiedBody).messages
\* that cannot be spread throws inside the try block.
SearchReturns ==
    /\ pc = "search"
    /\ IF modifiedBody.hasMessages
       THEN /\ out' = Append(out, FoundNotice)
            /\ followUps' = Append(followUps, [messages |-> followUpMessages])
            /\ followUpSeen' = <<>>
            /\ pc' = "connect"
            /\ UNCHANGED <<pending, dmVars, bsVars>>
       ELSE /\ Catch(Append(out, FoundNotice))
            /\ UNCHANGED <<followUps, followUpSeen>>
    /\ UNCHANGED <<proxy, status, modifiedBody, upstream, upstreamEnd, followUpEnd,
                   searches, searchFailed, bufferedEvents>>
    /\ UNCHANGED otherVars

\* performGoogleSearch rejects (search-google.js lines 11-30, or fetch fails).
SearchThrows ==
    /\ pc = "search"
    /\ Catch(out)
    /\ searchFailed' = searchFailed + 1
    /\ UNCHANGED <<proxy, status, modifiedBody, upstream, upstreamEnd, followUpSeen,
                   followUpEnd, searches, followUps, bufferedEvents>>
    /\ UNCHANGED otherVars

\* the follow-up makeRequest resolves
FollowUpConnects ==
    /\ pc = "connect"
    /\ pc' = "followup"
    /\ UNCHANGED <<proxy, status, modifiedBody, ioVars, bufferedEvents, dmVars,
                   bsVars>>
    /\ UNCHANGED otherVars

\* the follow-up makeRequest rejects
FollowUpConnectFails ==
    /\ pc = "connect"
    /\ Catch(out)
    /\ followUpEnd' = "refused"
    /\ UNCHANGED <<proxy, status, modifiedBody, upstream, upstreamEnd, followUpSeen,
                   searches, searchFailed, followUps, bufferedEvents>>
    /\ UNCHANGED otherVars

\* Faulty variant of FollowUpEvent: the follow-up loop runs the detection of the
\* original loop, so a GoogleSearch tool call in it starts a search.
FollowUpEventIntercepting ==
    /\ pc = "followup"
    /\ Len(followUpSeen) < MaxFollow
    /\ \E ev \in FollowEvents :
         /\ followUpSeen' = Append(followUpSeen, ev)
         /\ IF ev \in {DMStartGS, BSToolStartGS}
            THEN /\ out' = Append(out, Synth("notice", 0))
                 /\ searches' = Append(searches, <<"q">>)
            ELSE /\ out' = Append(out, Fwd(ev))
                 /\ UNCHANGED searches
    /\ UNCHANGED <<proxy, pc, status, modifiedBody, upstream, upstreamEnd,
                   followUpEnd, searchFailed, followUps, pending, bufferedEvents,
                   dmVars, bsVars>>
    /\ UNCHANGED otherVars

\* One iteration of the follow-up loop on a record that is not 'done'
\* (lines 480-487, 1012-1018, 1112-1118, 1278-1286).
FollowUpEvent ==
    /\ pc = "followup"
    /\ Len(followUpSeen) < MaxFollow
    /\ \E ev \in FollowEvents :
         /\ followUpSeen' = Append(followUpSeen, ev)
         /\ out' = Append(out, Fwd(ev))
    /\ UNCHANGED <<proxy, pc, status, modifiedBody, upstream, upstreamEnd,
                   followUpEnd, searches, searchFailed, followUps, pending,
                   bufferedEvents,
                   dmVars, bsVars>>
    /\ UNCHANGED otherVars

\* The follow-up stream yields 'done': sentinel, break, res.end(), return.
FollowUpDone ==
    /\ pc = "followup"
    /\ out' = Append(out, Sentinel)
    /\ followUpEnd' = "done"
    /\ pc' = "ended"
    /\ UNCHANGED <<proxy, status, modifiedBody, upstream, upstreamEnd, followUpSeen,
                   searches, searchFailed, followUps, pending, bufferedEvents,
                   dmVars, bsVars>>
    /\ UNCHANGED otherVars

\* The follow-up stream closes without a 'done': the loop ends, res.end().
FollowUpClose ==
    /\ pc = "followup"
    /\ followUpEnd' = "close"
    /\ pc' = "ended"
    /\ UNCHANGED <<proxy, status, modifiedBody, upstream, upstreamEnd, followUpSeen,
                   out, searches, searchFailed, followUps, pending,
                   bufferedEvents, dmVars, bsVars>>
    /\ UNCHANGED otherVars

\* The follow-up stream fails while it is read: the for-await throws.
FollowUpError ==
    /\ pc = "followup"
    /\ Catch(out)
    /\ followUpEnd' = "error"
    /\ UNCHANGED <<proxy, status, modifiedBody, upstream, upstreamEnd, followUpSeen,
                   searches, searchFailed, followUps, bufferedEvents>>
    /\ UNCHANGED otherVars

\* The original stream yields 'done' to the delta-merge loop (lines 326-329,
\* then 509).
DMDone ==
    /\ proxy = "dm"
    /\ pc = "loop"
    /\ upstreamEnd' = "done"
    /\ out' = Append(out, Sentinel)
    /\ pc' = "ended"
    /\ UNCHANGED <<proxy, status, modifiedBody, upstream, followUpSeen, followUpEnd,
                   searches, searchFailed, followUps, pending, bufferedEvents,
                   dmVars, bsVars>>
    /\ UNCHANGED otherVars

\* Faulty variant of BSDone: the search found in the thinking text at 'done'
\* starts without the progress notice.
BSDoneSilent ==
    /\ proxy = "bs"
    /\ pc = "loop"
    /\ upstreamEnd' = "done"
    /\ IF /\ ~searchTriggeredFromThinking
          /\ ~detectedWebSearch
          /\ thinkingContent # <<>>
          /\ detectSearchInThinking(thinkingContent) # NoQuery
       THEN /\ detectedWebSearch' = TRUE
            /\ searchTriggeredFromThinking' = TRUE
            /\ out' = out
            /\ pc' = "search"
            /\ searches' = Append(searches, detectSearchInThinking(thinkingContent))
            /\ pending' = [site |-> "done",
                           query |-> detectSearchInThinking(thinkingContent),
                           ev |-> NoEvent]
       ELSE /\ out' = Append(out, Sentinel)
            /\ pc' = "ended"
            /\ UNCHANGED <<detectedWebSearch, searchTriggeredFromThinking, searches,
                           pending>>
    /\ UNCHANGED <<proxy, status, modifiedBody, upstream, followUpSeen, followUpEnd,
                   searchFailed, followUps, bufferedEvents, dmVars, currentToolUse,
                   toolUseInputJson, thinkingContent, thinkingIndex>>
    /\ UNCHANGED otherVars

\* The original stream yields 'done' to the block-structured loop (lines
\* 952-1030, then 1309).
BSDone ==
    /\ proxy = "bs"
    /\ pc = "loop"
    /\ upstreamEnd' = "done"
    /\ IF /\ ~searchTriggeredFromThinking
          /\ ~detectedWebSearch
          /\ thinkingContent # <<>>
          /\ detectSearchInThinking(thinkingContent) # NoQuery
       THEN /\ detectedWebSearch' = TRUE
            /\ searchTriggeredFromThinking' = TRUE
            /\ out' = Append(out, Synth("notice", thinkingIndex))
            /\ pc' = "search"
            /\ searches' = Append(searches, detectSearchInThinking(thinkingContent))
            /\ pending' = [site |-> "done",
                           query |-> detectSearchInThinking(thinkingContent),
                           ev |-> NoEvent]
       ELSE /\ out' = Append(out, Sentinel)
            /\ pc' = "ended"
            /\ UNCHANGED <<detectedWebSearch, searchTriggeredFromThinking, searches,
                           pending>>
    /\ UNCHANGED <<proxy, status, modifiedBody, upstream, followUpSeen, followUpEnd,
                   searchFailed, followUps, bufferedEvents, dmVars, currentToolUse,
                   toolUseInputJson, thinkingContent, thinkingIndex>>
    /\ UNCHANGED otherVars

\* The original stream closes without a 'done': the loop ends, res.end()
\* (lines 509, 1309).
UpstreamClose ==
    /\ pc = "loop"
    /\ upstreamEnd = "open"
    /\ upstreamEnd' = "close"
    /\ pc' = "ended"
    /\ UNCHANGED <<proxy, status, modifiedBody, upstream, followUpSeen, followUpEnd,
                   out, searches, searchFailed, followUps, pending,
                   bufferedEvents, dmVars, bsVars>>
    /\ UNCHANGED otherVars

\* Faulty variant of UpstreamError: the handler's catch has no else branch, so
\* with the headers sent the response is left open.
UpstreamErrorUnended ==
    /\ pc = "loop"
    /\ upstreamEnd = "open"
    /\ upstreamEnd' = "error"
    /\ pc' = "unended"
    /\ UNCHANGED <<proxy, status, modifiedBody, upstream, followUpSeen, followUpEnd,
                   out, searches, searchFailed, followUps, pending,
                   bufferedEvents, dmVars, bsVars>>
    /\ UNCHANGED otherVars

\* The original stream fails while it is read: the handler's catch finds the
\* headers sent and only ends the response (lines 515-517, 1315-1318).
UpstreamError ==
    /\ pc = "loop"
    /\ upstreamEnd = "open"
    /\ upstreamEnd' = "error"
    /\ pc' = "ended"
    /\ UNCHANGED <<proxy, status, modifiedBody, upstream, followUpSeen, followUpEnd,
                   out, searches, searchFailed, followUps, pending,
                   bufferedEvents, dmVars, bsVars>>
    /\ UNCHANGED otherVars

\* The client closes its connection while the request is being handled.  The
\* handlers register no 'close' listener on req or res (lines 247-249,
\* 846-848): nothing of the handler's state changes.
ClientDisconnects ==
    /\ ~clientGone
    /\ pc \notin {"connect0", "ended"}
    /\ clientGone' = TRUE
    /\ UNCHANGED <<pxVars, frVars, tlVars, rqVars, prVars, srVars, thVars>>

(***************************************************************************)
(* REQUEST HANDLER, from the inbound body to the upstream response         *)
(*                                                                         *)
(* An inbound body, by what the handlers read of it:                       *)
(*   valid        the text is JSON                                         *)
(*   hasMessages  data.messages is an array                                *)
(*   isSearch     a user message holds a search keyword                    *)
(*   hasTools     data.tools is an array                                   *)
(*   tools        data.tools (<<>> when absent)                            *)
(*   stream       how the text spells the stream field:                    *)
(*                  "compact"  "stream":true   at the top level            *)
(*                  "spaced"   "stream": true  at the top level            *)
(*                  "loose"    "stream" : true at the top level            *)
(*                  "nested"   no top-level field; {"stream":true} inside  *)
(*                             another field of the body                   *)
(*                  "false"    "stream":false  at the top level            *)
(*                  "absent"   the text does not hold the word             *)
(***************************************************************************)
StreamSpellings == {"compact", "spaced", "loose", "nested", "false", "absent"}

\* body.includes('"stream":true') || body.includes('"stream": true')
HoldsStreamTrue(body) == body.stream \in {"compact", "spaced", "nested"}

\* JSON.stringify(JSON.parse(body)): no white space between the tokens
Stringify(body) ==
    [body EXCEPT !.stream = IF @ \in {"spaced", "loose"} THEN "compact" ELSE @]

RqToolNames == {"GoogleSearch", "WebSearch", "WebFetch", "Read"}

RqToolsOf(p) ==
    IF p = "dm" THEN {[fname |-> n, name |-> ""] : n \in RqToolNames}
    ELSE {[fname |-> "", name |-> n] : n \in RqToolNames}

RqBodies(p) ==
    {[valid |-> FALSE, hasMessages |-> FALSE, isSearch |-> FALSE,
      hasTools |-> FALSE, tools |-> <<>>, stream |-> st] : st \in StreamSpellings}
    \cup {[valid |-> TRUE, hasMessages |-> hm, isSearch |-> hm /\ is,
           hasTools |-> ht, tools |-> IF ht THEN ts ELSE <<>>, stream |-> st] :
            hm \in BOOLEAN, is \in BOOLEAN, ht \in BOOLEAN,
            ts \in SeqsUpTo(RqToolsOf(p), MaxTools), st \in StreamSpellings}

\* the extra filter of the block-structured processRequest (lines 734-741)
RqKeepForSearch(t) == t.name \notin {"WebFetch", "EnterPlanMode", "ExitPlanMode"}

\* processRequest(body, requestId).modifiedBody
processRequest(p, body) ==
    IF ~body.valid THEN body
    ELSE IF ~body.hasMessages THEN body
    ELSE IF ~body.hasTools THEN Stringify(body)
    ELSE LET variant == IF p = "dm" THEN "openai" ELSE "anthropic"
             injected == injectGoogleSearchTool(variant, body.tools)
         IN  IF p = "bs" /\ body.isSearch
             THEN Stringify([body EXCEPT !.tools = SelectSeq(injected, RqKeepForSearch)])
             ELSE Stringify([body EXCEPT !.tools = injected])

\* server.js relays every request alike; server-llamacpp.js tells streaming
\* requests apart (lines 257, 856)
isStreaming(p, body) == p # "plain" /\ HoldsStreamTrue(body)

RequestInit ==
    /\ rq_proxy \in {"dm", "bs", "plain"}
    /\ rq_body \in RqBodies(rq_proxy)
    /\ rq_pc = "received"
    /\ rq_modifiedBody = rq_body
    /\ rq_sent = <<>>
    /\ rq_status = 0
    /\ rq_response = <<>>
    /\ rq_out = <<>>
    /\ rq_upstreamStatus = 0

\* req.on('end'): up to the first await, the request to the upstream is made
RqReceive ==
    /\ rq_pc = "received"
    /\ rq_modifiedBody' = processRequest(rq_proxy, rq_body)
    /\ rq_sent' = Append(rq_sent, processRequest(rq_proxy, rq_body))
    /\ rq_pc' = "connecting"
    /\ UNCHANGED <<rq_proxy, rq_body, rq_status, rq_response, rq_out, rq_upstreamStatus>>

\* backendRes.statusCode / proxyRes.statusCode: what the upstream may answer
UpstreamStatuses == {200, 500}

\* the upstream answers: streaming requests send the headers at once, the
\* others when the response has ended
RqConnects ==
    /\ rq_pc = "connecting"
    /\ rq_upstreamStatus' \in UpstreamStatuses
    /\ IF isStreaming(rq_proxy, rq_body)
       THEN rq_pc' = "streaming" /\ rq_status' = 200
       ELSE rq_pc' = "relaying" /\ UNCHANGED rq_status
    /\ UNCHANGED <<rq_proxy, rq_body, rq_modifiedBody, rq_sent, rq_response, rq_out>>

\* the connection to the upstream fails: proxyReq.on('error') in server.js,
\* the handler's catch in server-llamacpp.js
RqConnectFails ==
    /\ rq_pc = "connecting"
    /\ rq_status' = IF rq_proxy = "plain" THEN 502 ELSE 400
    /\ rq_pc' = "done"
    /\ UNCHANGED <<rq_proxy, rq_body, rq_modifiedBody, rq_sent, rq_response, rq_out, rq_upstreamStatus>>

\* A chunk of the upstream response, by what it holds: plain text, a
\* tool_use block that calls GoogleSearch with a query, or a piece of text
\* cut inside a two-byte character: "m1" ends with its lead byte, "m2"
\* starts with its continuation byte.
RespChunks == {"text", "tool_use GoogleSearch", "m1", "m2"}

\* backendData after `backendData += chunk` for each chunk: every Buffer is
\* converted to a string on its own (lines 275, 875)
backendData(chunks) ==
    Flatten([i \in 1..Len(chunks) |-> Utf8Decode(<<chunks[i]>>)])

\* a chunk of the upstream response of a relayed request arrives: server.js
\* writes it to the client as it is (proxyRes.on('data'), lines 238-241),
\* server-llamacpp.js collects it in backendData (lines 275, 875)
RqResponseData ==
    /\ rq_pc = "relaying"
    /\ Len(rq_response) < MaxChunks
    /\ \E chunk \in RespChunks :
         /\ rq_response' = Append(rq_response, chunk)
         /\ IF rq_proxy = "plain"
            THEN rq_out' = Append(rq_out, chunk) /\ rq_status' = 200
            ELSE UNCHANGED <<rq_out, rq_status>>
    /\ UNCHANGED <<rq_proxy, rq_body, rq_pc, rq_modifiedBody, rq_sent,
                   rq_upstreamStatus>>

\* the upstream response of a relayed request ends: server.js ends the
\* response (lines 243-245), server-llamacpp.js writes the status and the
\* collected data (lines 276-279)
RqResponseEnds ==
    /\ rq_pc = "relaying"
    /\ rq_status' = IF rq_proxy = "plain" THEN 200 ELSE rq_upstreamStatus
    /\ rq_out' = IF rq_proxy = "plain" THEN rq_out
                 ELSE Utf8Encode(backendData(rq_response))
    /\ rq_pc' = "done"
    /\ UNCHANGED <<rq_proxy, rq_body, rq_modifiedBody, rq_sent, rq_response,
                   rq_upstreamStatus>>

\* backendRes.on('error') of a relayed request (server-llamacpp.js)
RqResponseError ==
    /\ rq_pc = "relaying"
    /\ rq_proxy # "plain"
    /\ rq_status' = 502
    /\ rq_pc' = "done"
    /\ UNCHANGED <<rq_proxy, rq_body, rq_modifiedBody, rq_sent, rq_response, rq_out, rq_upstreamStatus>>

(***************************************************************************)
(* TWO REQUESTS HANDLED CONCURRENTLY                                       *)
(*                                                                         *)
(* Each request runs the delta-merge handler.  Its state is the set of     *)
(* variables declared inside the request callback (lines 233, 247,         *)
(* 319-323) and what it has written and called; a step runs the handler    *)
(* from one await to the next, and steps of the two requests interleave.   *)
(***************************************************************************)
Req == {1, 2}

PairEvents == {DMContent, DMStartGS, DMFrag("QOpen")}

\* What the outside does for one request: the records of its upstream
\* stream (ended by [DONE]) and the outcome of its search.
PairInputs ==
    {[events |-> es, searchOk |-> ok] :
        es \in SeqsUpTo(PairEvents, MaxPairEvents), ok \in BOOLEAN}

HandlerState0 ==
    [pc |-> "loop", pos |-> 1, out |-> <<>>, searches |-> <<>>, followUps |-> <<>>,
     detectedToolCall |-> FALSE, currentToolCall |-> NullCall,
     toolCallBuffer |-> <<>>]

\* The handler from one await to the next, as a function of the request's
\* own state h and of what the outside hands it.
HandlerStep(h, in) ==
    IF h.pc = "loop"
    THEN IF h.pos > Len(in.events)
         THEN \* lines 326-329, 509
              [h EXCEPT !.out = Append(h.out, Sentinel), !.pc = "ended"]
         ELSE LET ev == in.events[h.pos]
                  g == [h EXCEPT !.pos = h.pos + 1]
              IN  IF DMIsToolStart(ev)
                  THEN [g EXCEPT !.detectedToolCall = TRUE,
                                 !.currentToolCall =
                                     [null |-> FALSE,
                                      id |-> IF ev.id # "" THEN ev.id ELSE "chunk",
                                      name |-> IF ev.name # "" THEN ev.name
                                               ELSE "GoogleSearch",
                                      arguments |-> ev.args],
                                 !.out = Append(h.out, Synth("notice", 0))]
                  ELSE IF ev.tc /\ h.currentToolCall # NullCall /\ ev.args # <<>>
                  THEN [g EXCEPT !.toolCallBuffer = h.toolCallBuffer \o ev.args]
                  ELSE IF h.currentToolCall # NullCall /\ (ev.fin \/ ~ev.tc)
                  THEN IF ExtractQuery(h.toolCallBuffer) # NoQuery
                       THEN [g EXCEPT !.pc = "search",
                                      !.searches =
                                          Append(h.searches,
                                                 ExtractQuery(h.toolCallBuffer))]
                       ELSE [g EXCEPT !.currentToolCall = NullCall,
                                      !.toolCallBuffer = <<>>]
                  ELSE [g EXCEPT !.out = DMForward(h.out, ev, h.detectedToolCall,
                                                   h.currentToolCall)]
    ELSE IF h.pc = "search"
    THEN IF in.searchOk
         THEN \* lines 404-475
              [h EXCEPT !.out = Append(h.out, Synth("found", 0)),
                        !.followUps =
                            Append(h.followUps,
                                   [messages |->
                                       DMFollowUpMessages(Transcript(MaxMsgs),
                                                          h.currentToolCall,
                                                          h.toolCallBuffer,
                                                          ExtractQuery(h.toolCallBuffer))]),
                        !.pc = "followup"]
         ELSE \* lines 493-500
              [h EXCEPT !.currentToolCall = NullCall, !.toolCallBuffer = <<>>,
                        !.pc = "loop"]
    ELSE IF h.pc = "followup"
    THEN \* lines 480-491: one content record, then [DONE]
         [h EXCEPT !.out = h.out \o <<Fwd(DMContent), Sentinel>>, !.pc = "ended"]
    ELSE h

\* The request handled with no other request around.
RECURSIVE RunAlone(_, _, _)
RunAlone(h, in, fuel) ==
    IF h.pc = "ended" \/ fuel = 0 THEN h
    ELSE RunAlone(HandlerStep(h, in), in, fuel - 1)

HandledAlone(in) == RunAlone(HandlerState0, in, Len(in.events) + 4)

PairInit ==
    /\ pr_in \in [Req -> PairInputs]
    /\ pr = [r \in Req |-> HandlerState0]
    /\ activeSearches = {}

\* Faulty variant of PairStep: toolCallBuffer is one module-level variable.
PairStepSharedBuffer ==
    \E r \in Req :
        /\ pr[r].pc # "ended"
        /\ LET h == HandlerStep(pr[r], pr_in[r])
           IN  pr' = [q \in Req |->
                        IF q = r THEN h
                        ELSE [pr[q] EXCEPT !.toolCallBuffer = h.toolCallBuffer]]
        /\ UNCHANGED <<pr_in, activeSearches>>

\* One of the two requests runs up to its next await.
PairStep ==
    \E r \in Req :
        /\ pr[r].pc # "ended"
        /\ pr' = [pr EXCEPT ![r] = HandlerStep(pr[r], pr_in[r])]
        /\ UNCHANGED <<pr_in, activeSearches>>

(***************************************************************************)
(* SEARCH EXECUTOR: performGoogleSearch                                    *)
(*                                                                         *)
(* "proxy" is search-google.js, called by the three proxies with           *)
(* numResults = 5; "mcp" is the MCP server's own copy, called with         *)
(* args.num_results || 10.  The provider's answer is a list of items,      *)
(* numbered in order; it may hold more items than the request asked for.   *)
(***************************************************************************)
ProxyNumResults == 5
McpNumResults == 10

SrEnvs == {"set", "nokey", "nocx"}

\* no answer of the google_search handler yet
NoReply == [isError |-> FALSE, text |-> <<>>]

SearchInit ==
    /\ sr_variant \in {"proxy", "mcp"}
    /\ sr_env \in (IF sr_variant = "proxy" THEN SrEnvs ELSE {"set"})
    /\ sr_num \in (IF sr_variant = "proxy" THEN {ProxyNumResults}
                   ELSE 1..McpNumResults)
    /\ sr_pc = "called"
    /\ sr_timer = FALSE
    /\ sr_result = <<>>
    /\ sr_error = ""
    /\ sr_reply = NoReply

\* The call runs up to `await fetch(...)`.  search-google.js throws when a
\* credential is missing (lines 11-17); the MCP copy arms its timer first.
SrStart ==
    /\ sr_pc = "called"
    /\ IF sr_variant = "proxy" /\ sr_env # "set"
       THEN /\ sr_pc' = "threw"
            /\ sr_error' = "config"
            /\ UNCHANGED sr_timer
       ELSE /\ sr_pc' = "fetching"
            /\ sr_timer' = (sr_variant = "mcp")
            /\ UNCHANGED sr_error
    /\ UNCHANGED <<sr_variant, sr_env, sr_num, sr_result, sr_reply>>

\* The provider answers with its status line; the MCP copy clears its timer.
SrResponds ==
    /\ sr_pc = "fetching"
    /\ \E ok \in BOOLEAN :
         IF ok
         THEN sr_pc' = "reading" /\ UNCHANGED sr_error
         ELSE sr_pc' = "threw" /\ sr_error' = "http"
    /\ sr_timer' = FALSE
    /\ UNCHANGED <<sr_variant, sr_env, sr_num, sr_result, sr_reply>>

\* fetch rejects (network failure).
SrFetchFails ==
    /\ sr_pc = "fetching"
    /\ sr_pc' = "threw"
    /\ sr_error' = "network"
    /\ sr_timer' = FALSE
    /\ UNCHANGED <<sr_variant, sr_env, sr_num, sr_result, sr_reply>>

\* response.json() resolves: results is data.items mapped one to one, or []
\* when the answer holds no items.
SrReturns ==
    /\ sr_pc = "reading"
    /\ \E k \in 0..MaxItems : sr_result' = [i \in 1..k |-> i]
    /\ sr_pc' = "returned"
    /\ UNCHANGED <<sr_variant, sr_env, sr_num, sr_timer, sr_error, sr_reply>>

\* response.json() rejects: the body is not JSON.  Both copies let the error
\* out (search-google.js line 32; mcp-server/index.js lines 46, 59-65).
SrJsonFails ==
    /\ sr_pc = "reading"
    /\ sr_pc' = "threw"
    /\ sr_error' = "json"
    /\ UNCHANGED <<sr_variant, sr_env, sr_num, sr_timer, sr_result, sr_reply>>

\* The timer of the MCP copy fires: controller.abort(), fetch rejects with
\* AbortError, the call throws 'Search timeout'.
SrTimeout ==
    /\ sr_pc = "fetching"
    /\ sr_timer
    /\ sr_pc' = "threw"
    /\ sr_error' = "timeout"
    /\ sr_timer' = FALSE
    /\ UNCHANGED <<sr_variant, sr_env, sr_num, sr_result, sr_reply>>

\* formatSearchResults(searchResults) (mcp-server/index.js lines 71-90): a
\* line for no results, else a heading and the first ten results
FormattedText(results) ==
    IF results = <<>> THEN <<"No search results found">>
    ELSE <<"Found">> \o SubSeq(results, 1, IF Len(results) < 10 THEN Len(results) ELSE 10)

\* Faulty variant of McpReply: the handler has no catch, what
\* performGoogleSearch throws leaves the handler.
McpReplyRethrowing ==
    /\ sr_variant = "mcp"
    /\ sr_pc \in {"returned", "threw"}
    /\ IF sr_pc = "returned"
       THEN /\ sr_reply' = [isError |-> FALSE, text |-> FormattedText(sr_result)]
            /\ sr_pc' = "replied"
       ELSE /\ sr_reply' = sr_reply
            /\ sr_pc' = "rejected"
    /\ UNCHANGED <<sr_variant, sr_env, sr_num, sr_timer, sr_result, sr_error>>

\* The google_search handler of the MCP server resumes after
\* `await performGoogleSearch(query, numResults)` (mcp-server/index.js lines
\* 144-171): the formatted results, or the catch clause's error result,
\* whose text ends with error.message (sr_error names the error thrown).
McpReply ==
    /\ sr_variant = "mcp"
    /\ sr_pc \in {"returned", "threw"}
    /\ IF sr_pc = "returned"
       THEN sr_reply' = [isError |-> FALSE, text |-> FormattedText(sr_result)]
       ELSE sr_reply' = [isError |-> TRUE,
                         text |-> <<"Search failed: ", sr_error>>]
    /\ sr_pc' = "replied"
    /\ UNCHANGED <<sr_variant, sr_env, sr_num, sr_timer, sr_result, sr_error>>

(***************************************************************************)
(* HEURISTIC DETECTION ON TWO DELIVERIES OF ONE THINKING TEXT              *)
(*                                                                         *)
(* A run is the heuristic part of the block-structured loop on the         *)
(* thinking_delta records of one thinking block followed by 'done'; no     *)
(* tool_use record arrives.  Both runs are given the same thinking text,   *)
(* cut into deltas in two ways.                                            *)
(***************************************************************************)
Run == {1, 2}

RECURSIVE Splits(_)
Splits(text) ==
    IF text = <<>> THEN {<<>>}
    ELSE UNION {{<<SubSeq(text, 1, k)>> \o rest :
                    rest \in Splits(SubSeq(text, k + 1, Len(text)))} :
                k \in 1..Len(text)}

ThinkState0 ==
    [pos |-> 0, thinkingContent |-> <<>>, searchTriggeredFromThinking |-> FALSE,
     query |-> NoQuery, done |-> FALSE]

\* lines 1049-1070: one thinking_delta record
ThinkStep(h, delta) ==
    LET content == h.thinkingContent \o delta
        potentialQuery == detectSearchInThinking(content)
    IN  IF /\ ~h.searchTriggeredFromThinking
           /\ potentialQuery # NoQuery
           /\ TextLen(content) > ThinkingMinLen
        THEN [h EXCEPT !.pos = h.pos + 1, !.thinkingContent = content,
                       !.searchTriggeredFromThinking = TRUE,
                       !.query = potentialQuery]
        ELSE [h EXCEPT !.pos = h.pos + 1, !.thinkingContent = content]

\* lines 952-970: the 'done' record
ThinkAtDone(h) ==
    IF /\ ~h.searchTriggeredFromThinking
       /\ h.thinkingContent # <<>>
       /\ detectSearchInThinking(h.thinkingContent) # NoQuery
    THEN [h EXCEPT !.searchTriggeredFromThinking = TRUE,
                   !.query = detectSearchInThinking(h.thinkingContent),
                   !.done = TRUE]
    ELSE [h EXCEPT !.done = TRUE]

ThinkInit ==
    /\ th_text \in SeqsUpTo(AllThinkTokens, MaxThink)
    /\ th_in \in [Run -> Splits(th_text)]
    /\ th = [r \in Run |-> ThinkState0]

\* the next thinking_delta of a run whose search has not started
ThinkDelta ==
    \E r \in Run :
        /\ ~th[r].searchTriggeredFromThinking
        /\ th[r].pos < Len(th_in[r])
        /\ th' = [th EXCEPT ![r] = ThinkStep(th[r], th_in[r][th[r].pos + 1])]
        /\ UNCHANGED <<th_text, th_in>>

\* the stream of a run is done
ThinkDone ==
    \E r \in Run :
        /\ ~th[r].searchTriggeredFromThinking
        /\ ~th[r].done
        /\ th[r].pos = Len(th_in[r])
        /\ th' = [th EXCEPT ![r] = ThinkAtDone(th[r])]
        /\ UNCHANGED <<th_text, th_in>>

(***************************************************************************)
(* Specifications                                                          *)
(***************************************************************************)
FramerIdle ==
    /\ fr_dialect = "openai"
    /\ fr_all = <<>>
    /\ fr_rest = <<>>
    /\ buffer = <<>>
    /\ fr_yield = <<>>
    /\ fr_closed = TRUE

ToolsIdle ==
    /\ tl_variant = "openai"
    /\ tl_in = <<>>
    /\ tl_out = <<>>
    /\ tl_calls = 0

HandlerStart ==
    /\ pc = "connect0"
    /\ status = 0
    /\ modifiedBody \in Bodies
    /\ upstream = <<>>
    /\ upstreamEnd = "open"
    /\ followUpSeen = <<>>
    /\ followUpEnd = "none"
    /\ out = <<>>
    /\ searches = <<>>
    /\ searchFailed = 0
    /\ followUps = <<>>
    /\ pending = NoPending
    /\ bufferedEvents = <<>>
    /\ detectedToolCall = FALSE
    /\ currentToolCall = NullCall
    /\ toolCallBuffer = <<>>
    /\ hasContent = FALSE
    /\ detectedWebSearch = FALSE
    /\ currentToolUse = NullCall
    /\ toolUseInputJson = <<>>
    /\ thinkingContent = <<>>
    /\ thinkingIndex = -1
    /\ searchTriggeredFromThinking = FALSE
    /\ clientGone = FALSE

HandlerIdle ==
    /\ proxy = "dm"
    /\ HandlerStart
    /\ modifiedBody = [hasMessages |-> FALSE, messages |-> <<>>]

ThinkIdle ==
    /\ th_text = <<>>
    /\ th_in = <<>>
    /\ th = <<>>

SearchIdle ==
    /\ sr_variant = "proxy"
    /\ sr_env = "set"
    /\ sr_num = ProxyNumResults
    /\ sr_pc = "threw"
    /\ sr_timer = FALSE
    /\ sr_result = <<>>
    /\ sr_error = ""
    /\ sr_reply = NoReply

PairIdle ==
    /\ pr_in = <<>>
    /\ pr = <<>>
    /\ activeSearches = {}

RequestIdle ==
    /\ rq_proxy = "dm"
    /\ rq_body = [valid |-> FALSE, hasMessages |-> FALSE, isSearch |-> FALSE,
                  hasTools |-> FALSE, tools |-> <<>>, stream |-> "absent"]
    /\ rq_pc = "done"
    /\ rq_modifiedBody = rq_body
    /\ rq_sent = <<>>
    /\ rq_status = 0
    /\ rq_response = <<>>
    /\ rq_out = <<>>
    /\ rq_upstreamStatus = 0

\* A streaming request handled by one of the two handlers.
Init ==
    /\ proxy \in {"dm", "bs"}
    /\ HandlerStart
    /\ FramerIdle
    /\ ToolsIdle
    /\ RequestIdle
    /\ PairIdle
    /\ SearchIdle
    /\ ThinkIdle

Next ==
    \/ InitialConnects
    \/ InitialConnectFails
    \/ DMEvent
    \/ DMDone
    \/ BSEvent
    \/ BSDone
    \/ UpstreamClose
    \/ UpstreamError
    \/ SearchReturns
    \/ SearchThrows
    \/ FollowUpConnects
    \/ FollowUpConnectFails
    \/ FollowUpEvent
    \/ FollowUpDone
    \/ FollowUpClose
    \/ FollowUpError

Spec == Init /\ [][Next]_vars

\* A framer reading one upstream byte stream.
InitFramer ==
    /\ FramerInit
    /\ ToolsIdle
    /\ HandlerIdle
    /\ RequestIdle
    /\ PairIdle
    /\ SearchIdle
    /\ ThinkIdle

nonFramerVars == <<tlVars, pxVars, rqVars, clientGone, prVars, srVars, thVars>>

NextFramer ==
    \/ FramerChunk /\ UNCHANGED nonFramerVars
    \/ FramerClose /\ UNCHANGED nonFramerVars

SpecFramer == InitFramer /\ [][NextFramer]_vars

\* The request rewriter applied to one tool list.
InitTools ==
    /\ ToolsInit
    /\ FramerIdle
    /\ HandlerIdle
    /\ RequestIdle
    /\ PairIdle
    /\ SearchIdle
    /\ ThinkIdle

NextTools ==
    /\ ToolsInject
    /\ UNCHANGED <<frVars, pxVars, rqVars, clientGone, prVars, srVars, thVars>>

SpecTools == InitTools /\ [][NextTools]_vars

\* One inbound request, up to the upstream's response.
InitRequest ==
    /\ RequestInit
    /\ FramerIdle
    /\ ToolsIdle
    /\ HandlerIdle
    /\ PairIdle
    /\ SearchIdle
    /\ ThinkIdle

nonRequestVars == <<frVars, tlVars, pxVars, clientGone, prVars, srVars, thVars>>

NextRequest ==
    \/ RqReceive /\ UNCHANGED nonRequestVars
    \/ RqConnects /\ UNCHANGED nonRequestVars
    \/ RqConnectFails /\ UNCHANGED nonRequestVars
    \/ RqResponseData /\ UNCHANGED nonRequestVars
    \/ RqResponseEnds /\ UNCHANGED nonRequestVars
    \/ RqResponseError /\ UNCHANGED nonRequestVars

SpecRequest == InitRequest /\ [][NextRequest]_vars

\* Two streaming requests handled by one server process.
InitPair ==
    /\ PairInit
    /\ FramerIdle
    /\ ToolsIdle
    /\ HandlerIdle
    /\ RequestIdle
    /\ SearchIdle
    /\ ThinkIdle

NextPair ==
    /\ PairStep
    /\ UNCHANGED <<frVars, tlVars, pxVars, rqVars, clientGone, srVars, thVars>>

SpecPair == InitPair /\ [][NextPair]_vars

\* One call of performGoogleSearch.
InitSearch ==
    /\ SearchInit
    /\ FramerIdle
    /\ ToolsIdle
    /\ HandlerIdle
    /\ RequestIdle
    /\ PairIdle
    /\ ThinkIdle

nonSearchVars == <<frVars, tlVars, pxVars, rqVars, clientGone, prVars, thVars>>

NextSearch ==
    \/ SrStart /\ UNCHANGED nonSearchVars
    \/ SrResponds /\ UNCHANGED nonSearchVars
    \/ SrFetchFails /\ UNCHANGED nonSearchVars
    \/ SrReturns /\ UNCHANGED nonSearchVars
    \/ SrTimeout /\ UNCHANGED nonSearchVars
    \/ SrJsonFails /\ UNCHANGED nonSearchVars
    \/ McpReply /\ UNCHANGED nonSearchVars

SpecSearch == InitSearch /\ [][NextSearch]_vars

\* The same call, where the code that is ready to run does run and a timer
\* that is armed fires; the provider owes nothing.
SpecSearchFair ==
    /\ SpecSearch
    /\ WF_vars(SrStart /\ UNCHANGED nonSearchVars)
    /\ WF_vars(SrTimeout /\ UNCHANGED nonSearchVars)

\* A streaming request whose client may disconnect.
NextCancel ==
    \/ Next
    \/ ClientDisconnects

SpecCancel == Init /\ [][NextCancel]_vars

(***************************************************************************)
(* The end of a tool call, for every argument text.                        *)
(*                                                                         *)
(* The request is taken where the upstream has sent some content, has      *)
(* announced a GoogleSearch tool call and has sent its arguments in one    *)
(* record: the handler has forwarded the content, written the notice and   *)
(* accumulated the argument text.  One more record follows.                *)
(***************************************************************************)
ArgTexts == SeqsUpTo(AllArgFrags, MaxArgFrags)

DMArgs(text) == DMRecord(TRUE, "", "", "", text, FALSE, FALSE)

BSArgs(text) ==
    BSRecord("content_block_delta", "", "", "", "input_json_delta", <<>>, text)

DMCallOpen(text) ==
    LET lead == [i \in 1..(MaxEvents - 3) |-> DMContent]
    IN  /\ upstream = lead \o <<DMStartGS, DMArgs(text)>>
        /\ bufferedEvents = upstream
        /\ out = [i \in 1..Len(lead) |-> Fwd(lead[i])] \o <<Synth("notice", 0)>>
        /\ detectedToolCall = TRUE
        /\ currentToolCall = [null |-> FALSE, id |-> "call_1",
                              name |-> "GoogleSearch", arguments |-> <<>>]
        /\ toolCallBuffer = text
        /\ hasContent = (lead # <<>>)
        /\ detectedWebSearch = FALSE
        /\ currentToolUse = NullCall
        /\ toolUseInputJson = <<>>

BSCallOpen(text) ==
    LET lead == [i \in 1..(MaxEvents - 3) |-> BSText]
        twice == Flatten([i \in 1..Len(lead) |-> <<Fwd(lead[i]), Fwd(lead[i])>>])
    IN  /\ upstream = lead \o <<BSToolStartGS, BSArgs(text)>>
        /\ bufferedEvents = <<BSToolStartGS>>
        /\ out = twice \o
                 <<Synth("notice_start", 1), Synth("notice", 1),
                   Synth("notice_stop", 1), Fwd(BSArgs(text))>>
        /\ detectedWebSearch = TRUE
        /\ currentToolUse = [null |-> FALSE, id |-> "toolu_1",
                             name |-> "GoogleSearch", input |-> <<>>]
        /\ toolUseInputJson = text
        /\ detectedToolCall = FALSE
        /\ currentToolCall = NullCall
        /\ toolCallBuffer = <<>>
        /\ hasContent = FALSE

InitArgs ==
    /\ proxy \in {"dm", "bs"}
    /\ pc = "loop"
    /\ status = 200
    /\ modifiedBody \in Bodies
    /\ upstreamEnd = "open"
    /\ followUpSeen = <<>>
    /\ followUpEnd = "none"
    /\ searches = <<>>
    /\ searchFailed = 0
    /\ followUps = <<>>
    /\ pending = NoPending
    /\ thinkingContent = <<>>
    /\ thinkingIndex = -1
    /\ searchTriggeredFromThinking = FALSE
    /\ clientGone = FALSE
    /\ \E text \in ArgTexts :
         IF proxy = "dm" THEN DMCallOpen(text) ELSE BSCallOpen(text)
    /\ FramerIdle
    /\ ToolsIdle
    /\ RequestIdle
    /\ PairIdle
    /\ SearchIdle
    /\ ThinkIdle

NextArgs ==
    \/ DMEvent
    \/ BSEvent
    \/ DMDone
    \/ BSDone

SpecArgs == InitArgs /\ [][NextArgs]_vars

\* The heuristic detection run on two deliveries of one thinking text.
InitThink ==
    /\ ThinkInit
    /\ FramerIdle
    /\ ToolsIdle
    /\ HandlerIdle
    /\ RequestIdle
    /\ PairIdle
    /\ SearchIdle

nonThinkVars == <<frVars, tlVars, pxVars, rqVars, clientGone, prVars, srVars>>

NextThink ==
    \/ ThinkDelta /\ UNCHANGED nonThinkVars
    \/ ThinkDone /\ UNCHANGED nonThinkVars

SpecThink == InitThink /\ [][NextThink]_vars

(***************************************************************************)
(* PROPERTIES                                                              *)
(***************************************************************************)
\* The original stream held an explicit GoogleSearch tool-call record.
HasExplicitCall ==
    \E i \in 1..Len(upstream) :
        IF proxy = "dm"
        THEN upstream[i].tc /\ upstream[i].name = "GoogleSearch"
        ELSE BSIsGoogleSearchStart(upstream[i])

\* The upstream records res.write has forwarded, in order.
ForwardedEvents(o) ==
    LET isEvent(w) == w.t = "event"
        sel == SelectSeq(o, isEvent)
    IN  [i \in 1..Len(sel) |-> sel[i].ev]

SentinelCount(o) ==
    LET isSentinel(w) == w = Sentinel
    IN  Len(SelectSeq(o, isSentinel))

\* C1: a streaming request whose upstream stream holds one or more explicit
\* GoogleSearch tool-call structures has called performGoogleSearch exactly
\* once by the time its response is ended.
C1_ExactlyOneSearch ==
    (pc = "ended" /\ HasExplicitCall) => Len(searches) = 1

\* C1, the case of a failed search followed by a further tool call: the
\* request has called performGoogleSearch twice.
C1_SearchedTwice ==
    /\ HasExplicitCall
    /\ searchFailed >= 1
    /\ Len(searches) = 2

ValidStreams == {Flatten(fs) : fs \in SeqsUpTo(ValidFrames, MaxFrames)}

\* C2: once every byte of a valid frame sequence has been delivered, in
\* whatever chunks, the framer has yielded the same ordered events as when
\* the same bytes arrive as one chunk.
C2_ChunkingInvariant ==
    (fr_rest = <<>> /\ fr_all \in ValidStreams)
        => fr_yield = FramerStep(fr_dialect, <<>>, fr_all).events

\* C2, the case of a chunk boundary inside a multi-byte character: the
\* yielded content holds U+FFFD where the stream held the character.
C2_CharacterReplaced ==
    /\ fr_rest = <<>>
    /\ fr_all \in ValidStreams
    /\ \E i \in 1..Len(fr_yield) :
         \E j \in 1..Len(fr_yield[i].content) : fr_yield[i].content[j] = "R"

\* C3: while the follow-up stream is forwarded, a record it yields calls no
\* search and issues no upstream request; it is written to the client as an
\* ordinary forwarded record and the forwarding goes on.
C3_FollowUpIsPassThrough ==
    [][(pc = "followup" /\ followUpSeen' # followUpSeen)
         => /\ searches' = searches
            /\ followUps' = followUps
            /\ pc' = "followup"
            /\ out' = Append(out, Fwd(followUpSeen'[Len(followUpSeen')]))]_vars

\* C3: a GoogleSearch tool call of the follow-up stream has been written to
\* the client, after the one search of the request.
C3_SignalForwarded ==
    /\ pc = "followup"
    /\ followUpSeen # <<>>
    /\ followUpSeen[Len(followUpSeen)] \in {DMStartGS, BSToolStartGS}
    /\ out[Len(out)] = Fwd(followUpSeen[Len(followUpSeen)])
    /\ Len(searches) = 1

\* C4: when performGoogleSearch throws, the follow-up request is issued all
\* the same.
C4_FailedSearchStillContinues ==
    [][searchFailed' > searchFailed => Len(followUps') = Len(followUps) + 1]_vars

\* C5: in the block-structured handler, while no tool signal exists, the
\* records written to the client are the records the upstream stream
\* yielded, each once and in order.
C5_BlockPassThrough ==
    (proxy = "bs" /\ ~detectedWebSearch) => ForwardedEvents(out) = upstream

NoToolCallsDelta ==
    \A i \in 1..Len(upstream) : ~upstream[i].tc

C7_AtMostOneFollowUp ==
    Len(followUps) <= 1

\* C7, the case of a follow-up request that failed to connect: a second one
\* has been issued for a later tool signal.
C7_SecondFollowUp ==
    /\ Len(followUps) = 2
    /\ followUpEnd = "refused"

\* C8: when the response of a streaming request is ended, the sentinel has
\* been written exactly once, whether the streams ended by 'done' or closed
\* without one.
C8_SentinelOnce ==
    (pc = "ended" /\ status = 200 /\ upstreamEnd # "error" /\ followUpEnd # "error")
        => SentinelCount(out) = 1

\* C9: the messages of every follow-up request are the rewritten request's
\* messages, unchanged and in order, followed by exactly two turns, an
\* assistant turn and then a tool or user turn carrying the formatted
\* result; the rewritten request's messages stay what the client sent.
C9_FollowUpTranscript ==
    /\ modifiedBody.hasMessages => modifiedBody.messages = Transcript(MaxMsgs)
    /\ \A i \in 1..Len(followUps) :
         LET m == followUps[i].messages
             k == Len(modifiedBody.messages)
         IN  /\ Len(m) = k + 2
             /\ SubSeq(m, 1, k) = Transcript(MaxMsgs)
             /\ m[k + 1].role = "assistant"
             /\ m[k + 2].role \in {"tool", "user"}
             /\ \E j \in 1..Len(m[k + 2].body) : m[k + 2].body[j] = "results"

\* C9: a follow-up request has been issued for a request with messages.
C9_FollowUpIssued ==
    /\ followUps # <<>>
    /\ proxy = "dm"
    /\ Len(modifiedBody.messages) = MaxMsgs

\* The name under which a copy of injectGoogleSearchTool reads a tool.
IsCompeting(variant, t) ==
    IF variant = "openai" THEN t.fname \in Competing ELSE t.name \in Competing

\* C10: after injectGoogleSearchTool the tool list holds no competing tool.
C10_NoCompetingTool ==
    tl_calls >= 1
        => \A i \in 1..Len(tl_out) : ~IsCompeting(tl_variant, tl_out[i])

\* C10, the case of a list that already holds GoogleSearch: the competing
\* tool is still declared.
C10_CompetingKept ==
    /\ tl_calls >= 1
    /\ \E i \in 1..Len(tl_in) :
         tl_in[i] \in {[fname |-> "GoogleSearch", name |-> ""],
                       [fname |-> "", name |-> "GoogleSearch"]}
    /\ \E i \in 1..Len(tl_out) : IsCompeting(tl_variant, tl_out[i])

\* The body declares the GoogleSearch tool in the format of its proxy.
DeclaresGoogleSearch(p, body) ==
    \E i \in 1..Len(body.tools) :
        IF p = "dm" THEN body.tools[i].fname = "GoogleSearch"
        ELSE body.tools[i].name = "GoogleSearch"

\* C11: for an inbound body that is JSON with a messages array, the body
\* sent to the upstream declares the GoogleSearch tool, also when the
\* request has no tools field.
C11_ForwardedBodyDeclaresTool ==
    (rq_pc # "received" /\ rq_body.valid /\ rq_body.hasMessages)
        => /\ rq_sent # <<>>
           /\ \A i \in 1..Len(rq_sent) : DeclaresGoogleSearch(rq_proxy, rq_sent[i])

\* C11, the case of a request without a tools field: the body went to the
\* upstream with no GoogleSearch declaration.
C11_SentWithoutTool ==
    /\ rq_body.valid
    /\ rq_body.hasMessages
    /\ ~rq_body.hasTools
    /\ rq_sent # <<>>
    /\ ~DeclaresGoogleSearch(rq_proxy, rq_sent[1])

\* C14: for an inbound body that is not JSON, nothing is sent to the
\* upstream and the response the client gets has status 400.
C14_MalformedBodyRejected ==
    ~rq_body.valid
        => /\ rq_sent = <<>>
           /\ rq_pc = "done" => rq_status = 400

\* C14: a body that is not JSON went to the upstream and the client got the
\* upstream's answer.
C14_MalformedBodyForwarded ==
    /\ ~rq_body.valid
    /\ rq_sent = <<rq_body>>
    /\ rq_pc = "done"
    /\ rq_status = 200

\* C15: when the connection to the upstream fails for the initial request,
\* the response the client gets has status 502.
C15_ConnectFailureIs502 ==
    [][(rq_pc = "connecting" /\ rq_pc' = "done") => rq_status' = 502]_vars

\* C15: a request of server-llamacpp.js whose upstream connection failed was
\* answered with status 400.
C15_ConnectFailureAnswered400 ==
    /\ rq_proxy \in {"dm", "bs"}
    /\ rq_pc = "done"
    /\ rq_sent # <<>>
    /\ rq_status = 400

\* The entries a copy of injectGoogleSearchTool takes for GoogleSearch.
IsGoogleSearch(variant, t) ==
    IF variant = "openai" THEN t.fname = "GoogleSearch" \/ t.name = "GoogleSearch"
    ELSE t.name = "GoogleSearch"

GoogleSearchCount(variant, tools) ==
    LET isGS(t) == IsGoogleSearch(variant, t)
    IN  Len(SelectSeq(tools, isGS))

\* C12: injectGoogleSearchTool applied twice gives the list it gives applied
\* once, and a list that held at most one GoogleSearch entry holds exactly
\* one afterwards.
C12_InjectIdempotent ==
    /\ tl_calls = 2 => tl_out = injectGoogleSearchTool(tl_variant, tl_in)
    /\ (tl_calls >= 1 /\ GoogleSearchCount(tl_variant, tl_in) <= 1)
           => GoogleSearchCount(tl_variant, tl_out) = 1

\* C12: injectGoogleSearchTool was applied twice to a full list without
\* GoogleSearch.
C12_InjectedTwice ==
    /\ tl_calls = 2
    /\ Len(tl_in) = MaxTools
    /\ GoogleSearchCount(tl_variant, tl_in) = 0
    /\ tl_variant # "openai"
    /\ tl_out[1].name = "GoogleSearch"

\* C13: when the follow-up request fails to connect, the client gets a
\* terminal error event and the response is ended.
C13_RefusedFollowUpIsFatal ==
    [][(pc = "connect" /\ followUpEnd' = "refused")
         => /\ pc' = "ended"
            /\ out' # <<>>
            /\ out'[Len(out')].t = "error"]_vars

\* C13: after a follow-up request that failed to connect, a record of the
\* original stream has been forwarded to the client.
C13_ForwardedAfterRefusal ==
    /\ followUpEnd = "refused"
    /\ Len(followUps) = 1
    /\ pc = "loop"
    /\ out[Len(out)].t = "event"
    /\ out[Len(out)].ev = upstream[Len(upstream)]
    /\ \A i \in 1..Len(out) : out[i].t # "error"

\* C16: once the client has disconnected, no follow-up request is issued
\* and no further record is read from the original or the follow-up stream.
C16_DisconnectAbandons ==
    [][clientGone
         => /\ followUps' = followUps
            /\ upstream' = upstream
            /\ Len(followUpSeen') <= Len(followUpSeen)]_vars

C18_SearchCallEnds ==
    (sr_pc = "fetching") ~> (sr_pc \in {"reading", "returned", "threw"})

\* C18: a call of search-google.js waits for the provider with no timer
\* armed.
C18_WaitingWithoutTimer ==
    /\ sr_variant = "proxy"
    /\ sr_pc = "fetching"
    /\ ~sr_timer

\* the configured cap of the result list
ResultCap(variant) ==
    IF variant = "proxy" THEN ProxyNumResults ELSE McpNumResults

\* C19: the result list a performGoogleSearch call returns holds no more
\* items than the configured cap, whatever the provider sent.
C19_ResultsCapped ==
    sr_pc = "returned" => Len(sr_result) <= ResultCap(sr_variant)

\* C19: the provider sent more items than the cap and the call returned
\* them all.
C19_ReturnedAboveCap ==
    /\ sr_pc = "returned"
    /\ Len(sr_result) = MaxItems
    /\ MaxItems > ResultCap(sr_variant)

DoneCount(events) ==
    LET isDone(e) == e = DoneEvent
    IN  Len(SelectSeq(events, isDone))

\* C20: when the upstream byte stream has closed, the framer has yielded the
\* done indicator exactly once, whether the stream held a '[DONE]' marker, a
\* message_stop record, both or neither.
C20_DoneExactlyOnce ==
    fr_closed => DoneCount(fr_yield) = 1

\* C20: a stream of valid frames without a marker has closed and the framer
\* has yielded its events and no done indicator.
C20_ClosedWithoutDone ==
    /\ fr_closed
    /\ fr_all \in ValidStreams
    /\ fr_yield # <<>>
    /\ DoneCount(fr_yield) = 0

\* The complete 'data: ' lines of a byte stream whose payload is neither the
\* '[DONE]' marker nor text JSON.parse accepts.
MalformedLines(bytes) ==
    LET lines == SplitLines(Utf8Decode(bytes), <<>>)
        complete == SubSeq(lines, 1, Len(lines) - 1)
        malformed(line) ==
            /\ StartsWithData(line)
            /\ Payload(line) # <<"e">>
            /\ ~JsonParses(Payload(line))
    IN  SelectSeq(complete, malformed)

\* The events that surface a frame's raw text instead of a parsed record.
UnknownEvents(events) ==
    LET isUnknown(e) == e.type = "unknown"
    IN  SelectSeq(events, isUnknown)

\* C21: when the upstream byte stream has closed, every 'data:' frame whose
\* payload is not valid JSON has been yielded to the consumer as an Unknown
\* event carrying its raw text, in its position in the stream; none was
\* dropped.
C21_MalformedSurfaced ==
    fr_closed =>
        /\ Len(UnknownEvents(fr_yield)) = Len(MalformedLines(fr_all))
        /\ \A i \in 1..Len(UnknownEvents(fr_yield)) :
             UnknownEvents(fr_yield)[i].content = Payload(MalformedLines(fr_all)[i])

\* C21: a stream holding a malformed frame and a well-formed one has closed;
\* the well-formed frame was yielded and nothing stands for the malformed one.
C21_MalformedDropped ==
    /\ fr_closed
    /\ fr_all = FBad \o FContent
    /\ fr_yield = <<JsonEvent(<<"a", "M", "b">>)>>

\* A query taken from the arguments of a tool call, as opposed to one captured
\* from thinking text by detectSearchInThinking.
IsExplicitQuery(q) == q = ExtractQuery(<<"QOpen", "QClose">>)

ExplicitSearches ==
    SelectSeq(searches, IsExplicitQuery)

HeuristicSearches ==
    LET isHeuristic(q) == ~IsExplicitQuery(q)
    IN  SelectSeq(searches, isHeuristic)

\* C22: within one request, a search triggered from thinking text and an
\* explicit GoogleSearch tool_use never both occur: when the original stream
\* has produced an explicit GoogleSearch tool_use record, no search of the
\* request was triggered from thinking text.
C22_DetectionsExclusive ==
    (proxy = "bs" /\ HasExplicitCall) => HeuristicSearches = <<>>

\* C22: one request of the block-structured handler has run a search triggered
\* from thinking text and, after it, a search for an explicit tool_use.
C22_BothDetectionsSearched ==
    /\ proxy = "bs"
    /\ HasExplicitCall
    /\ HeuristicSearches # <<>>
    /\ ExplicitSearches # <<>>

\* The handler detected an explicit tool call, finalized it and found no
\* usable query in its arguments: the call state is cleared and no search was
\* ever started.
CallAbandoned ==
    /\ searches = <<>>
    /\ IF proxy = "dm"
       THEN detectedToolCall /\ currentToolCall = NullCall
       ELSE detectedWebSearch /\ ~searchTriggeredFromThinking
                /\ currentToolUse = NullCall

\* The original stream written through as it came: every record once, in
\* order, nothing synthetic among them.
Unmodified(events) ==
    [i \in 1..Len(events) |-> Fwd(events[i])]

\* C23: when a detected tool call yielded no usable query, the client has
\* received the original upstream stream unmodified by the time the stream is
\* done: no synthetic notice was added and no upstream record was withheld.
C23_AbandonedCallUnmodified ==
    (pc = "ended" /\ upstreamEnd = "done" /\ CallAbandoned)
        => out = Append(Unmodified(upstream), Sentinel)

\* C23: the delta-merge handler has ended a request whose tool call was
\* abandoned for want of a query; the client was sent the progress notice and
\* not the records of the tool call.
C23_NoticeKeptCallWithheld ==
    /\ proxy = "dm"
    /\ pc = "ended"
    /\ upstreamEnd = "done"
    /\ CallAbandoned
    /\ \E i \in 1..Len(out) : out[i].t = "notice"
    /\ Len(ForwardedEvents(out)) < Len(upstream)

\* A GoogleSearch tool call is open: it was announced, arguments holding a
\* usable query were accumulated, and no record has ended it yet.
OpenCallWithQuery ==
    IF proxy = "dm"
    THEN currentToolCall # NullCall /\ ExtractQuery(toolCallBuffer) # NoQuery
    ELSE currentToolUse # NullCall /\ ExtractQuery(toolUseInputJson) # NoQuery

\* C24: when the original stream yields 'done' while a GoogleSearch tool call
\* is still open, the call is finalized there and performGoogleSearch is
\* called with its query.
C24_OpenCallSearchedAtDone ==
    [][(pc = "loop" /\ OpenCallWithQuery /\ upstreamEnd' = "done")
           => (pc' = "search" /\ Len(searches') = Len(searches) + 1)]_vars

\* C24: the stream was done while a tool call with a usable query was open,
\* and the response has ended without any search.
C24_OpenCallDroppedAtDone ==
    /\ pc = "ended"
    /\ upstreamEnd = "done"
    /\ OpenCallWithQuery
    /\ searches = <<>>
    /\ out[Len(out)] = Sentinel

\* A record that announces a call to a tool other than GoogleSearch.
IsOtherToolCall(ev) ==
    IF proxy = "dm"
    THEN ev.tc /\ ev.name \notin {"", "GoogleSearch"}
    ELSE ev.type = "content_block_start" /\ ev.btype = "tool_use"
             /\ ev.name # "GoogleSearch"

\* C25: only a tool call named GoogleSearch is intercepted.  In a request
\* whose original stream holds no tool call of that name (and where no search
\* was triggered from thinking text), no search was started, nothing synthetic
\* but the end sentinel was written, and every record announcing a call to
\* another tool was forwarded to the client.
C25_OnlyGoogleSearchIntercepted ==
    (~HasExplicitCall /\ HeuristicSearches = <<>>) =>
        /\ searches = <<>>
        /\ \A i \in 1..Len(out) : out[i].t = "event" \/ out[i] = Sentinel
        /\ \A i \in 1..Len(upstream) :
             IsOtherToolCall(upstream[i]) =>
                 \E j \in 1..Len(ForwardedEvents(out)) :
                     ForwardedEvents(out)[j] = upstream[i]

\* C25: the delta-merge handler has written the progress notice and started a
\* search for a stream whose only tool call names the tool Read.
C25_OtherToolSearched ==
    /\ proxy = "dm"
    /\ ~HasExplicitCall
    /\ \E i \in 1..Len(upstream) : upstream[i] = DMStartOther
    /\ \E i \in 1..Len(out) : out[i].t = "notice"
    /\ searches # <<>>
    /\ ForwardedEvents(out) = <<>>

\* The upstream response of the relayed request holds a GoogleSearch tool use.
ResponseUsesGoogleSearch ==
    \E i \in 1..Len(rq_response) : rq_response[i] = "tool_use GoogleSearch"

\* C26: server.js executes GoogleSearch itself when the model uses it and
\* puts the results back into the conversation: by the time a request whose
\* response held a GoogleSearch tool use is done, a second request, carrying
\* the results, has been sent to the upstream.
C26_PlainProxyExecutesSearch ==
    (rq_proxy = "plain" /\ rq_pc = "done" /\ ResponseUsesGoogleSearch)
        => Len(rq_sent) >= 2

\* C26: server.js has finished a request whose response held a GoogleSearch
\* tool use; the tool use went to the client as it came and the upstream was
\* sent the one original request.
C26_ToolUseRelayedUnexecuted ==
    /\ rq_proxy = "plain"
    /\ rq_pc = "done"
    /\ ResponseUsesGoogleSearch
    /\ rq_out = rq_response
    /\ Len(rq_sent) = 1

\* The record that ends the open tool call arrives in this step: a record
\* without tool_calls (delta-merge), a content_block_stop (block-structured).
CallEnds ==
    /\ pc = "loop"
    /\ Len(upstream') = Len(upstream) + 1
    /\ IF proxy = "dm"
       THEN currentToolCall # NullCall /\ ~upstream'[Len(upstream')].tc
       ELSE currentToolUse # NullCall /\ upstream'[Len(upstream')] = BSStop

\* The argument text accumulated for the open tool call.
AccumulatedArgs == IF proxy = "dm" THEN toolCallBuffer ELSE toolUseInputJson

\* The query as the claim words it: parsed.query when the text parses, else
\* the first capture of the tolerant pattern, else none.
ClaimedQuery(text) ==
    IF ArgsParse(text) THEN ParsedQuery(text)
    ELSE IF ArgsMatch(text) THEN FirstCapture(text)
    ELSE [kind |-> "undefined", val |-> <<>>]

IsAnnounce(ev) ==
    IF proxy = "dm" THEN DMIsToolStart(ev) ELSE BSIsGoogleSearchStart(ev)

LastAnnounce ==
    CHOOSE i \in 1..Len(upstream) :
        IsAnnounce(upstream[i]) /\ \A j \in (i + 1)..Len(upstream) : ~IsAnnounce(upstream[j])

\* Every argument fragment the upstream has emitted for the open tool call,
\* in arrival order, the announcing record's own included.
EmittedArgs ==
    LET n == Len(upstream) - LastAnnounce + 1
        frag(ev) == IF proxy = "dm" THEN ev.args ELSE ev.pj
    IN  Flatten([k \in 1..n |-> frag(upstream[LastAnnounce + k - 1])])

CallIsOpen ==
    /\ pc = "loop"
    /\ IF proxy = "dm" THEN currentToolCall # NullCall ELSE currentToolUse # NullCall

\* C28: while a tool call is open, the raw argument text the query will be
\* extracted from is the concatenation, in arrival order, of every argument
\* fragment the upstream has emitted for that call, a fragment carried by the
\* announcing record included.
C28_ArgsAreAllFragments ==
    CallIsOpen => AccumulatedArgs = EmittedArgs

\* C28: the announcing record carried the complete arguments
\* {"query":"q"}; the call has ended, the text used for the extraction was
\* empty and no search was started.
C28_AnnouncedArgsLost ==
    /\ proxy = "dm"
    /\ upstream = <<DMStartGSArgs, DMFinish>>
    /\ currentToolCall = NullCall
    /\ pc = "loop"
    /\ searches = <<>>

IsNotice(w) == w.t \in {"notice", "notice_start"}

NoticeWritten == \E i \in 1..Len(out) : IsNotice(out[i])

FirstNotice ==
    CHOOSE i \in 1..Len(out) :
        IsNotice(out[i]) /\ \A j \in 1..(i - 1) : ~IsNotice(out[j])

\* The upstream records written to the client after the first progress notice.
ForwardedAfterNotice ==
    ForwardedEvents(SubSeq(out, FirstNotice + 1, Len(out)))

\* C29: once the progress notice has been written, no record of the original
\* stream is written to the client, the tool call's own argument and stop
\* records included: the records written after the notice are exactly those
\* the continuation has yielded.
C29_OriginalSuppressedAfterNotice ==
    (NoticeWritten /\ Len(followUps) <= 1) => ForwardedAfterNotice = followUpSeen

\* C29: the block-structured handler has searched an explicit tool call and
\* opened its continuation; the argument and stop records of the tool call
\* were written to the client after the notice.
C29_CallRecordsWrittenAfterNotice ==
    /\ proxy = "bs"
    /\ pc = "followup"
    /\ searchFailed = 0
    /\ upstream = <<BSToolStartGS, BSJson("QOpen"), BSStop>>
    /\ followUpSeen = <<>>
    /\ ForwardedAfterNotice = <<BSJson("QOpen"), BSStop>>

NoticeCount(o) ==
    LET isNotice(w) == w.t = "notice"
    IN  Len(SelectSeq(o, isNotice))

\* C30: every call of performGoogleSearch made by a proxy comes after a
\* 'Searching Google' progress notice of its own written to the client: at
\* any moment the client has been sent at least as many notices as searches
\* were started.
C30_NoticeBeforeSearch ==
    NoticeCount(out) >= Len(searches)

\* C30: a search found in the thinking text at 'done' is in flight, and the
\* last thing written to the client is its notice.
C30_DoneSearchAfterNotice ==
    /\ pc = "search"
    /\ pending.site = "done"
    /\ Len(searches) = 1
    /\ out[Len(out)] = Synth("notice", thinkingIndex)

\* The answer as the claim words it: the capture of the first pattern, in
\* list order, that matches the text; none when no pattern matches.  Only the
\* first and the fifth pattern can match a text of the model.
ClaimedDetection(text) ==
    LET matching == {p \in {1, 5} :
                        IF p = 1 THEN MatchesFirstPattern(text)
                        ELSE MatchesFifthPattern(text)}
        first == CHOOSE p \in matching : \A q \in matching : p <= q
    IN  IF matching = {} THEN NoQuery
        ELSE IF first = 1 THEN FirstPatternCapture(text)
        ELSE FifthPatternCapture(text)

\* C31: detectSearchInThinking, applied to the cumulative text of the open
\* thinking block, returns the capture of the first pattern in list order that
\* matches and null when none matches: a search that was triggered carries
\* that capture for the text accumulated so far, and a stream that ended
\* without a trigger accumulated a text no pattern matches.
C31_FirstPatternInListOrder ==
    \A r \in Run :
        /\ th[r].thinkingContent =
               Flatten(SubSeq(th_in[r], 1, th[r].pos))
        /\ th[r].searchTriggeredFromThinking =>
               th[r].query = ClaimedDetection(th[r].thinkingContent)
        /\ (th[r].done /\ ~th[r].searchTriggeredFromThinking) =>
               ClaimedDetection(th[r].thinkingContent) = NoQuery

\* C31: a text in which the fifth pattern matches before the first one
\* triggered a search with the capture of the first pattern.
C31_LaterMatchOfEarlierPattern ==
    \E r \in Run :
        /\ th[r].thinkingContent = <<"nw", "sq">>
        /\ th[r].searchTriggeredFromThinking
        /\ th[r].query = <<"cats ">>

\* C32: heuristic detection is evaluated on every thinking delta and fires at
\* most once per request.  A request has started at most one search from
\* thinking text, and has started one exactly when the flag that disables
\* further evaluation is set, whether that search succeeded or failed; while
\* the flag is not set and no tool_use was seen, the loop never rests on a
\* text that meets the trigger condition.
C32_HeuristicFiresOnce ==
    /\ Len(HeuristicSearches) <= 1
    /\ proxy = "bs" =>
         /\ searchTriggeredFromThinking <=> (HeuristicSearches # <<>>)
         /\ (pc = "loop" /\ ~searchTriggeredFromThinking /\ ~detectedWebSearch) =>
                ~(/\ detectSearchInThinking(thinkingContent) # NoQuery
                  /\ TextLen(thinkingContent) > ThinkingMinLen)

\* C32: the search triggered from thinking text failed, a further thinking
\* delta holding a search intent arrived, and no second search was started.
C32_NoSecondHeuristicSearch ==
    /\ proxy = "bs"
    /\ pc = "loop"
    /\ searchFailed = 1
    /\ upstream = <<BSThink("sq"), BSThink("sq")>>
    /\ searches = <<<<"cats ">>>>

\* The types of the events a well-formed 'data: ' line stands for; none for
\* any other line.
ValidLineTypes(dialect, line) ==
    IF ~StartsWithData(line) THEN <<>>
    ELSE IF Payload(line) = <<"e">> THEN <<"done">>
    ELSE IF Payload(line) = <<"s">>
         THEN IF dialect = "sse" THEN <<"message_stop", "done">>
              ELSE <<"message_stop">>
    ELSE IF JsonParses(Payload(line)) THEN <<"chunk">>
    ELSE <<>>

\* The events the well-formed frames of a whole byte stream stand for.
ExpectedTypes(dialect, bytes) ==
    LET lines == SplitLines(Utf8Decode(bytes), <<>>)
        complete == SubSeq(lines, 1, Len(lines) - 1)
    IN  Flatten([i \in 1..Len(complete) |-> ValidLineTypes(dialect, complete[i])])

\* C33: a 'data:' frame whose payload is not valid JSON neither aborts nor
\* stalls the stream: when the byte stream has closed, the framer has yielded
\* an event for every well-formed frame, those after a malformed one
\* included, in the order of the stream.
C33_MalformedFrameNotFatal ==
    fr_closed =>
        [i \in 1..Len(fr_yield) |-> fr_yield[i].type]
            = ExpectedTypes(fr_dialect, fr_all)

\* C33: a stream made of a malformed frame followed by the '[DONE]' marker has
\* closed, and the marker was yielded.
C33_YieldedAfterMalformed ==
    /\ fr_closed
    /\ fr_all = FBad \o FDone
    /\ fr_yield = <<DoneEvent>>

\* The JSON value of the body has the top-level field stream equal to true.
StreamIsTrue(body) == body.valid /\ body.stream \in {"compact", "spaced", "loose"}

\* C34: a request is handled on the streaming interception path exactly when
\* its JSON body has the top-level field stream equal to true, however the
\* body spells it, and not because the text appears elsewhere in the body.
C34_StreamingIffStreamTrue ==
    (rq_proxy # "plain" /\ rq_body.valid /\ rq_pc \in {"streaming", "relaying"})
        => (rq_pc = "streaming" <=> StreamIsTrue(rq_body))

\* C34: a request whose body spells the field "stream" : true is relayed as a
\* non-streaming request.
C34_StreamTrueRelayed ==
    /\ rq_proxy # "plain"
    /\ rq_body.valid
    /\ rq_body.stream = "loose"
    /\ rq_pc = "relaying"

\* C40: for a request not handled on the streaming path whose upstream
\* response has ended, no search was made, the upstream was sent exactly one
\* request, and the client was sent the upstream's status code and the bytes
\* of the upstream's body.
C40_RelayedResponseComplete ==
    [][(rq_proxy # "plain" /\ RqResponseEnds)
          => /\ searches' = <<>>
             /\ Len(rq_sent') = 1
             /\ rq_status' = rq_upstreamStatus'
             /\ rq_out' = rq_response']_vars

\* C40: a relayed response whose two chunks cut a two-byte character has
\* ended, and the client was sent two replacement characters for it.
C40_SplitCharacterReplaced ==
    /\ rq_proxy # "plain"
    /\ rq_pc = "done"
    /\ rq_status = rq_upstreamStatus
    /\ rq_response = <<"m1", "m2">>
    /\ rq_out = <<"r", "r">>

\* The run has passed its query to the search or has ended without one.
ThinkSettled(r) == th[r].searchTriggeredFromThinking \/ th[r].done

\* C35: the query that heuristic detection passes to performGoogleSearch
\* depends only on the text of the thinking block: two streams that carry the
\* same thinking text cut into thinking_delta records in different ways
\* trigger a search with the same query, or both trigger none.
C35_QueryIndependentOfDeltas ==
    (ThinkSettled(1) /\ ThinkSettled(2))
        => /\ th[1].searchTriggeredFromThinking = th[2].searchTriggeredFromThinking
           /\ th[1].query = th[2].query

\* C35: the thinking text 'search for cats ' followed by more text arrived
\* as one delta in one stream and as two in the other, and the two searches
\* were given different queries.
C35_QueryDependsOnDeltas ==
    /\ th_text = <<"sq", "pad">>
    /\ th[1].searchTriggeredFromThinking
    /\ th[2].searchTriggeredFromThinking
    /\ th[1].query = <<"cats ", "pad">>
    /\ th[2].query = <<"cats ">>

\* C36: at most one 'Searching Google' progress notice is written to the
\* client per request, however many upstream records carry fragments of the
\* same tool call.
C36_AtMostOneNotice ==
    NoticeCount(out) <= 1

\* C36: the delta-merge handler has read two records of the call call_1, the
\* announcing one and one that carries an arguments fragment with the type
\* field again, and has written a notice for each.
C36_NoticePerCallRecord ==
    /\ proxy = "dm"
    /\ upstream = <<DMStartGS, DMStartGSArgs>>
    /\ DMStartGS.id = DMStartGSArgs.id
    /\ searches = <<>>
    /\ NoticeCount(out) = 2

\* What the claim supposes of the outside: a connection attempt is answered,
\* a stream that is being read ends (by 'done', by closing or by an error)
\* and a search that was called returns or throws.
SpecLive ==
    /\ Spec
    /\ WF_vars(InitialConnects \/ InitialConnectFails)
    /\ WF_vars(DMDone \/ BSDone \/ UpstreamClose \/ UpstreamError)
    /\ WF_vars(SearchReturns \/ SearchThrows)
    /\ WF_vars(FollowUpConnects \/ FollowUpConnectFails)
    /\ WF_vars(FollowUpDone \/ FollowUpClose \/ FollowUpError)

\* C37: for every streaming request, if each upstream stream and the search
\* call eventually finish, the client response is eventually ended, and ended
\* once: the handler reaches the end of the response on every path and, once
\* there, neither writes to the client nor ends the response again.
C37_ResponseEventuallyEnded ==
    /\ <>[](pc = "ended")
    /\ [][pc = "ended" => (pc' = "ended" /\ out' = out)]_vars

\* C37: the response was ended after a search that failed and an upstream
\* that then closed without a sentinel.
C37_EndedAfterFailureAndClose ==
    /\ pc = "ended"
    /\ searchFailed > 0
    /\ upstreamEnd = "close"
    /\ (out = <<>> \/ out[Len(out)] # Sentinel)

\* The assistant turn of the continuation request that was built last.
AssistantTurn ==
    LET msgs == followUps[Len(followUps)].messages
    IN  msgs[Len(msgs) - 1]

\* C38: the synthetic assistant tool-call turn of the continuation request
\* carries the id of the intercepted call and the arguments, holding the
\* query, that the model emitted for that call.
C38_AssistantTurnCarriesCall ==
    (pc = "connect" /\ pending.site = "explicit")
        => /\ AssistantTurn.role = "assistant"
           /\ AssistantTurn.id = upstream[LastAnnounce].id
           /\ AssistantTurn.body = AccumulatedArgs
           /\ ExtractQuery(AssistantTurn.body) = pending.query

\* C38: the block-structured handler searched the query of a call whose
\* arguments were {"query":"q"} and built a continuation whose assistant
\* turn carries the call's id and an empty input.
C38_AssistantTurnWithoutArguments ==
    /\ proxy = "bs"
    /\ pc = "connect"
    /\ pending.site = "explicit"
    /\ toolUseInputJson = <<"QOpen", "QClose">>
    /\ AssistantTurn.id = currentToolUse.id
    /\ AssistantTurn.body = <<>>

\* C39: in the MCP server's google_search handler, for a call with a string
\* query, every failure of the provider call (a status that is not 2xx, the
\* timeout abort, a network or a JSON error) is returned to the caller as a
\* result with isError = true and the text 'Search failed: <message>', and is
\* never thrown: the handler is never left by an exception, and once it has
\* answered a call that threw, its answer is that result.
C39_FailureReturnedAsError ==
    sr_variant = "mcp" =>
        /\ sr_pc # "rejected"
        /\ (sr_pc = "replied" /\ sr_error # "") =>
               /\ sr_error \in {"http", "timeout", "network", "json"}
               /\ sr_reply = [isError |-> TRUE,
                              text |-> <<"Search failed: ", sr_error>>]
        /\ (sr_pc = "replied" /\ sr_error = "") => ~sr_reply.isError

\* C39: the handler has answered a call whose timer fired with the error
\* result 'Search failed: Search timeout'.
C39_TimeoutReturnedAsError ==
    /\ sr_variant = "mcp"
    /\ sr_pc = "replied"
    /\ sr_error = "timeout"
    /\ sr_reply.isError
    /\ sr_reply.text = <<"Search failed: ", "timeout">>

====
